---------------------------- MODULE Spec2Model ----------------------------
(***************************************************************************)
(* Energy-telemetry aggregation and reporting (TaskD, TaskE, TaskF).       *)
(*                                                                         *)
(* Numbers: the programs compute with floats; the model computes with      *)
(* exact integers (a channel value is an integer number of units), so a    *)
(* sum is the mathematical sum.  A quotient a / b is kept unreduced as the *)
(* record [num |-> a, den |-> b].                                          *)
(* Text: a string is the sequence of its pieces; the piece NL is the       *)
(* newline character, every other piece is the content of one line.        *)
(***************************************************************************)
EXTENDS Integers, Sequences, FiniteSets, TLC

VARIABLES
    pc,              \* position of the running program
    data_list,       \* the converted samples (read_data's result)
    idx,             \* calculate_daily_totals: index of the next row of the for loop
    days_list,       \* calculate_daily_totals: the aggregates built so far
    current_day,     \* calculate_daily_totals: the date cursor
    daycount,        \* calculate_daily_totals: index of the last aggregate (0-based)
    out_file,        \* the output file: NoFile or File(content)
    prev_file,       \* the output file before the last write
    in_file,         \* the CSV file read_data opens
    written,         \* the texts handed to the file by each write, in order
    call,            \* arguments of the last call of the function under study
    result,          \* what that call returned (or the exception it raised)
    inp,             \* the last line read by input()
    prompt,          \* TaskF: the prompt that line answered
    flow,            \* TaskF: the submenu running ("none" at the main menu)
    startdate,       \* TaskF daily_summary_menu: startdate
    enddate,         \* TaskF daily_summary_menu: enddate
    month,           \* TaskF monthly_summary_menu: month (the accepted text)
    report,          \* TaskF: the report of the running submenu
    exit             \* TaskF: the flag a submenu returned to mainmenu

vars == <<pc, data_list, idx, days_list, current_day, daycount, out_file,
          prev_file, in_file, written, call, result, inp, prompt, flow, startdate,
          enddate, month, report, exit>>

None == [none |-> TRUE]
\* a file that does not exist, and a file holding the text c
NoFile == [exists |-> FALSE, content |-> <<>>]
File(c) == [exists |-> TRUE, content |-> c]

-----------------------------------------------------------------------------
(* Bounds of the model *)

MaxRows == 3

-----------------------------------------------------------------------------
(* Calendar: datetime.date as used by the programs *)

Date(y, m, d) == [year |-> y, month |-> m, day |-> d]

IsLeap(y) == (y % 4 = 0) /\ ((y % 100 # 0) \/ (y % 400 = 0))

DaysInMonth(y, m) ==
    IF m = 2 THEN (IF IsLeap(y) THEN 29 ELSE 28)
    ELSE IF m \in {4, 6, 9, 11} THEN 30 ELSE 31

RECURSIVE DaysBeforeMonth(_, _)
DaysBeforeMonth(y, m) ==
    IF m <= 1 THEN 0 ELSE DaysBeforeMonth(y, m - 1) + DaysInMonth(y, m - 1)

DaysBeforeYear(y) ==
    (y - 1) * 365 + ((y - 1) \div 4) - ((y - 1) \div 100) + ((y - 1) \div 400)

\* date.toordinal()
ToOrdinal(dt) == DaysBeforeYear(dt.year) + DaysBeforeMonth(dt.year, dt.month) + dt.day

\* date.weekday(): Monday is 0
Weekday(dt) == (ToOrdinal(dt) + 6) % 7

\* date comparison a <= b
DateLE(a, b) == ToOrdinal(a) <= ToOrdinal(b)

-----------------------------------------------------------------------------
(* TaskD / TaskE: calculate_daily_totals *)

\* the six channels, row[1] .. row[6]
Channels == 1..6

\* a converted row: [timestamp.date(), v1 .. v6]
Row(dt, v) == [date |-> dt, v |-> v]

\* the else branch: for i in range(1, 7): days_list[daycount][i] += row[i]
AddRowMutant(day, row) ==
    [day EXCEPT !.v = [c \in Channels |-> IF c < 6 THEN day.v[c] + row.v[c] ELSE day.v[c]]]

AddRow(day, row) ==
    [day EXCEPT !.v = [c \in Channels |-> day.v[c] + row.v[c]]]

\* the if branch: day = [current_day, row[1], ..., row[6]]
NewDay(row) == [date |-> row.date, v |-> [c \in Channels |-> row.v[c]]]

\* a new day only for a later date
StartsNewDayMutant(cur, row) == IF cur = None THEN TRUE ELSE ~DateLE(row.date, cur)

\* current_day is None or current_day != row[0].date()
\* (isinstance(row[0], datetime) holds of every row convert_data builds)
StartsNewDay(cur, row) == cur = None \/ cur # row.date

AggDates == {Date(2025, 10, 12), Date(2025, 10, 13), Date(2025, 11, 1)}

AggVecs == {<<1, 0, 2, 0, 1, 1>>, <<0, 1, 1, 2, 0, 2>>}

AggRows == {Row(dt, v) : dt \in AggDates, v \in AggVecs}

SeqsUpTo(S, n) == UNION {[1..k -> S] : k \in 0..n}

AggUnchanged == UNCHANGED <<out_file, prev_file, in_file, written, call, result, inp, prompt,
                            flow, startdate, enddate, month, report, exit>>

AggInit ==
    /\ pc = "agg_loop"
    /\ data_list \in SeqsUpTo(AggRows, MaxRows)
    /\ idx = 1
    /\ days_list = <<>>
    /\ current_day = None
    /\ daycount = -1
    /\ out_file = NoFile
    /\ prev_file = NoFile
    /\ in_file = NoFile
    /\ written = <<>>
    /\ call = None
    /\ result = None
    /\ inp = None
    /\ prompt = "none"
    /\ flow = "none"
    /\ startdate = None
    /\ enddate = None
    /\ month = None
    /\ report = None
    /\ exit = FALSE

\* one iteration of "for row in data_list", first branch
AggNewDay ==
    /\ pc = "agg_loop"
    /\ idx <= Len(data_list)
    /\ StartsNewDay(current_day, data_list[idx])
    /\ current_day' = data_list[idx].date
    /\ daycount' = daycount + 1
    /\ days_list' = Append(days_list, NewDay(data_list[idx]))
    /\ idx' = idx + 1
    /\ UNCHANGED <<pc, data_list>>
    /\ AggUnchanged

\* the else branch adding to the first aggregate instead of days_list[daycount]
AggAddMutant ==
    /\ pc = "agg_loop"
    /\ idx <= Len(data_list)
    /\ ~StartsNewDay(current_day, data_list[idx])
    /\ days_list' = [days_list EXCEPT ![1] = AddRow(@, data_list[idx])]
    /\ idx' = idx + 1
    /\ UNCHANGED <<pc, data_list, current_day, daycount>>
    /\ AggUnchanged

\* one iteration of "for row in data_list", else branch
AggAdd ==
    /\ pc = "agg_loop"
    /\ idx <= Len(data_list)
    /\ ~StartsNewDay(current_day, data_list[idx])
    /\ days_list' = [days_list EXCEPT ![daycount + 1] = AddRow(@, data_list[idx])]
    /\ idx' = idx + 1
    /\ UNCHANGED <<pc, data_list, current_day, daycount>>
    /\ AggUnchanged

\* the loop is exhausted: return days_list
AggReturn ==
    /\ pc = "agg_loop"
    /\ idx > Len(data_list)
    /\ pc' = "agg_done"
    /\ result' = days_list
    /\ UNCHANGED <<data_list, idx, days_list, current_day, daycount, out_file,
                   prev_file, in_file, written, call, inp, prompt, flow, startdate, enddate,
                   month, report, exit>>

AggNext == AggNewDay \/ AggAdd \/ AggReturn

SpecAgg == AggInit /\ [][AggNext]_vars

-----------------------------------------------------------------------------
(* Claim C1 *)

SortedByDate(s) == \A a, b \in 1..Len(s) : a <= b => DateLE(s[a].date, s[b].date)

DistinctDates(s) == {s[k].date : k \in 1..Len(s)}

RECURSIVE SumOver(_, _, _)
\* the sum of channel c over the rows of s dated dt
SumOver(s, dt, c) ==
    IF s = <<>> THEN 0
    ELSE (IF Head(s).date = dt THEN Head(s).v[c] ELSE 0) + SumOver(Tail(s), dt, c)

\* C1: for a sample sequence with non-decreasing dates, calculate_daily_totals
\* returns as many aggregates as there are distinct dates, and every channel of
\* every aggregate is the sum of that channel over the samples of its date.
C1_GroupingCorrect ==
    (pc = "agg_done" /\ SortedByDate(data_list)) =>
        /\ Len(result) = Cardinality(DistinctDates(data_list))
        /\ \A k \in 1..Len(result) : \A c \in Channels :
               result[k].v[c] = SumOver(data_list, result[k].date, c)

\* a sorted input with two samples of one date and a second date has been aggregated
C1_Witness ==
    /\ pc = "agg_done"
    /\ SortedByDate(data_list)
    /\ Len(data_list) = 3
    /\ Len(result) = 2
    /\ \E k \in 1..Len(result) : result[k].v[6] >= 3

-----------------------------------------------------------------------------
(* Claims C19, C20: calculate_daily_totals on any sample sequence *)

\* where the maximal runs of consecutive same-date samples begin
RunHeads(s) == {k \in 1..Len(s) : k = 1 \/ s[k].date # s[k - 1].date}

\* the first sample of the j-th run
RunHead(s, j) ==
    CHOOSE k \in RunHeads(s) : Cardinality({h \in RunHeads(s) : h <= k}) = j

\* the last sample of the run that begins at k
RunEnd(s, k) ==
    CHOOSE e \in k..Len(s) :
        /\ \A i \in k..e : s[i].date = s[k].date
        /\ e = Len(s) \/ s[e + 1].date # s[k].date

RECURSIVE RangeSum(_, _, _, _)
\* the sum of channel c over the samples a .. b of s
RangeSum(s, a, b, c) ==
    IF a > b THEN 0 ELSE s[a].v[c] + RangeSum(s, a + 1, b, c)

\* the aggregate of the run of s that begins at k
RunAggregate(s, k) ==
    [date |-> s[k].date, v |-> [c \in Channels |-> RangeSum(s, k, RunEnd(s, k), c)]]

\* one aggregate per maximal run, in the order of the input
RunAggregates(s) ==
    [j \in 1..Cardinality(RunHeads(s)) |-> RunAggregate(s, RunHead(s, j))]

\* C19: for any sample sequence, also one that is not in date order,
\* calculate_daily_totals returns exactly one aggregate per maximal run of
\* consecutive same-date samples, in input order, each with the sums of its run
\* only, and the else branch never indexes outside days_list (no error).
C19_OnePerRun ==
    /\ pc = "agg_done" => result = RunAggregates(data_list)
    /\ (pc = "agg_loop" /\ idx <= Len(data_list)
            /\ ~StartsNewDay(current_day, data_list[idx]))
         => (daycount + 1) \in DOMAIN days_list

\* an input that is not in date order has been aggregated: a date comes back
\* after another one and gets a second aggregate
C19_Witness ==
    /\ pc = "agg_done"
    /\ ~SortedByDate(data_list)
    /\ Len(result) = 3
    /\ result[1].date = result[3].date

\* C20: during a pass every sample either appends one new aggregate or changes
\* the last aggregate only; daycount is the index of the last element of
\* days_list; an aggregate that is not the last one never changes again.
C20_OnlyLastChanges ==
    /\ [](pc = "agg_loop" => daycount = Len(days_list) - 1)
    /\ [][/\ Len(days_list') \in {Len(days_list), Len(days_list) + 1}
          /\ \A k \in 1..(Len(days_list') - 1) :
                k \in DOMAIN days_list /\ days_list'[k] = days_list[k]
          /\ Len(days_list') = Len(days_list) =>
                (days_list' = days_list \/ days_list'[Len(days_list)].v
                                            # days_list[Len(days_list)].v)]_vars

\* a sample has been added to the second aggregate while the first stayed
C20_Witness ==
    /\ pc = "agg_loop"
    /\ idx = 4
    /\ Len(days_list) = 2
    /\ days_list[1] = NewDay(data_list[1])
    /\ days_list[2] = AddRow(NewDay(data_list[2]), data_list[3])

-----------------------------------------------------------------------------
(* TaskE: write_summaries *)

NL == [piece |-> "newline"]

\* f"Week {str(week_number)} electricity consumption and production (kWh, by phase)"
WeekTitle(w) == [piece |-> "week_title", week |-> w]
ColumnHeader1 == [piece |-> "Day Date Consumption [kWh] Production [kWh]"]
ColumnHeader2 == [piece |-> "(dd.mm.yyyy) v1 v2 v3 v1 v2 v3"]
Separator == [piece |-> "------ (78)"]

\* the title, the two header lines and the separator of one week
WeekBanner(w) == <<WeekTitle(w), NL, ColumnHeader1, NL, ColumnHeader2, NL, Separator>>

\* f"\n{WEEKDAYS[weekday]:<12}{formatted_date:<12}{str_cons_p1:>8}..."
DataRow(row) ==
    <<NL, [piece |-> "row", weekday |-> Weekday(row.date), date |-> row.date, v |-> row.v]>>

\* "\n\nSummary of the entire period by phase:" and what follows it; the
\* printed order is cons_p1, cons_p2, cons_p3, prod_p1, prod_p2, prod_p3
PeriodSummary(tot) ==
    <<NL, NL, [piece |-> "Summary of the entire period by phase:"],
      NL, [piece |-> "Consumption [kWh] Production [kWh]"],
      NL, [piece |-> "v1 v2 v3 v1 v2 v3"],
      NL, [piece |-> "------ (52)"],
      NL, [piece |-> "totals", v |-> tot],
      NL>>

\* "\n--- (new report begins here) ---\n\n"
NewReportBanner == <<NL, [piece |-> "--- (new report begins here) ---"], NL, NL>>

ZeroTotals == [c \in Channels |-> 0]

\* total_cons_p1 += cons_p1 ... total_prod_p2 += prod_p2; total_cons_p3 += prod_p3
\* (channel 3 is cons_p3, channel 6 is prod_p3: total_prod_p3 is never added to)
AddToTotals(tot, row) ==
    [c \in Channels |->
        IF c = 3 THEN tot[3] + row.v[3] + row.v[6]
        ELSE IF c = 6 THEN tot[6]
        ELSE tot[c] + row.v[c]]

\* the banner without the test of the weekday
WeekStartMutant(acc, row) ==
    [acc EXCEPT
        !.text = (IF acc.text # <<>> THEN acc.text \o <<NL, NL>> ELSE acc.text)
                 \o WeekBanner(acc.week),
        !.week = acc.week + 1]

\* the banner without week_number += 1
WeekStartSameWeek(acc, row) ==
    IF Weekday(row.date) = 0
    THEN [acc EXCEPT
            !.text = (IF acc.text # <<>> THEN acc.text \o <<NL, NL>> ELSE acc.text)
                     \o WeekBanner(acc.week)]
    ELSE acc

\* the banner in front of the Sunday rows
WeekStartSunday(acc, row) ==
    IF Weekday(row.date) = 6
    THEN [acc EXCEPT
            !.text = (IF acc.text # <<>> THEN acc.text \o <<NL, NL>> ELSE acc.text)
                     \o WeekBanner(acc.week),
            !.week = acc.week + 1]
    ELSE acc

\* the banner without the blank line in front of it
WeekStartNoBlank(acc, row) ==
    IF Weekday(row.date) = 0
    THEN [acc EXCEPT !.text = acc.text \o WeekBanner(acc.week), !.week = acc.week + 1]
    ELSE acc

\* if weekday == 0: the blank line when the text is not empty, the banner,
\* week_number += 1
WeekStart(acc, row) ==
    IF Weekday(row.date) = 0
    THEN [acc EXCEPT
            !.text = (IF acc.text # <<>> THEN acc.text \o <<NL, NL>> ELSE acc.text)
                     \o WeekBanner(acc.week),
            !.week = acc.week + 1]
    ELSE acc

\* one iteration of "for row in daily_totals"
SummaryStep(acc, row) ==
    LET a1 == [acc EXCEPT !.tot = AddToTotals(acc.tot, row)]
        a2 == WeekStart(a1, row)
    IN  [a2 EXCEPT !.text = a2.text \o DataRow(row)]

RECURSIVE SummaryLoop(_, _)
SummaryLoop(acc, rows) ==
    IF rows = <<>> THEN acc ELSE SummaryLoop(SummaryStep(acc, Head(rows)), Tail(rows))

\* weekly_summary as it is handed to the file, with the totals it prints
BuildSummary(daily_totals, week_number) ==
    LET acc == SummaryLoop([text |-> <<>>, week |-> week_number, tot |-> ZeroTotals],
                           daily_totals)
    IN  [text |-> acc.text \o PeriodSummary(acc.tot), tot |-> acc.tot, week |-> acc.week]

\* open(filename, "x") and, on FileExistsError, open(filename, "a")
WriteFileMutant(file, text) ==
    IF ~file.exists THEN File(text) ELSE File(file.content \o text)

WriteFile(file, text) ==
    IF ~file.exists THEN File(text) ELSE File(file.content \o NewReportBanner \o text)

MaxWrites == 2
MaxRunDays == 10

\* the day after dt
NextDay(dt) ==
    IF dt.day < DaysInMonth(dt.year, dt.month) THEN Date(dt.year, dt.month, dt.day + 1)
    ELSE IF dt.month < 12 THEN Date(dt.year, dt.month + 1, 1)
    ELSE Date(dt.year + 1, 1, 1)

RECURSIVE DayRun(_, _, _)
\* aggregates of n consecutive days from dt, numbered from k
DayRun(dt, k, n) ==
    IF n = 0 THEN <<>>
    ELSE <<Row(dt, <<k, 1, 2, k % 2, 3, k + 1>>)>> \o DayRun(NextDay(dt), k + 1, n - 1)

\* a Monday, a Wednesday, the last Sunday of a year
RunStarts == {Date(2025, 10, 6), Date(2025, 10, 8), Date(2025, 12, 28)}

RunLengths == {1} \cup ((MaxRunDays - 1)..MaxRunDays)

\* a Sunday and the Monday after it
ShortDates == {Date(2025, 10, 12), Date(2025, 10, 13)}

ShortRows == {Row(dt, v) : dt \in ShortDates, v \in AggVecs}

\* what calculate_daily_totals can return: neighbouring aggregates differ in date
NoRepeat(s) == \A k \in 1..(Len(s) - 1) : s[k].date # s[k + 1].date

TotalsInputs ==
    {s \in SeqsUpTo(ShortRows, 2) : NoRepeat(s)}
        \cup {DayRun(dt, 1, n) : dt \in RunStarts, n \in RunLengths}

WeekBases == {1, 41}

EInit ==
    /\ pc = "write"
    /\ data_list = <<>>
    /\ idx = 1
    /\ days_list = <<>>
    /\ current_day = None
    /\ daycount = -1
    /\ out_file = NoFile
    /\ prev_file = NoFile
    /\ in_file = NoFile
    /\ written = <<>>
    /\ call = None
    /\ result = None
    /\ inp = None
    /\ prompt = "none"
    /\ flow = "none"
    /\ startdate = None
    /\ enddate = None
    /\ month = None
    /\ report = None
    /\ exit = FALSE

\* write_summaries(daily_totals, week_number, "summary.txt"), one run of the program
WriteSummaries ==
    /\ pc = "write"
    /\ Len(written) < MaxWrites
    /\ \E dt \in TotalsInputs, wn \in WeekBases :
         LET s == BuildSummary(dt, wn) IN
           /\ call' = [daily_totals |-> dt, week_number |-> wn]
           /\ result' = s
           /\ prev_file' = out_file
           /\ out_file' = WriteFile(out_file, s.text)
           /\ written' = Append(written, s.text)
    /\ UNCHANGED <<pc, data_list, idx, days_list, current_day, daycount, in_file, inp,
                   prompt, flow, startdate, enddate, month, report, exit>>

ENext == WriteSummaries

SpecE == EInit /\ [][ENext]_vars

-----------------------------------------------------------------------------
(* Claim C2 *)

\* C2: the first write to an absent file leaves exactly the report text in it; a
\* second write leaves firstReport + separatorBanner + secondReport, the first
\* report's pieces unchanged at the front of the file.
C2_RoundTrip ==
    /\ Len(written) = 1 => out_file = File(written[1])
    /\ Len(written) = 2 => out_file = File(written[1] \o NewReportBanner \o written[2])
    /\ Len(written) >= 1 =>
          out_file.exists /\ SubSeq(out_file.content, 1, Len(written[1])) = written[1]

\* two different reports, each with data rows, have been written to the file
C2_Witness ==
    /\ Len(written) = 2
    /\ written[1] # written[2]
    /\ Len(written[1]) > Len(PeriodSummary(ZeroTotals))
    /\ Len(written[2]) > Len(PeriodSummary(ZeroTotals))

-----------------------------------------------------------------------------
(* Claim C10 *)

RECURSIVE ChannelSum(_, _)
\* the sum of channel c over all rows
ChannelSum(rows, c) ==
    IF rows = <<>> THEN 0 ELSE Head(rows).v[c] + ChannelSum(Tail(rows), c)

\* C10: in the whole-period summary each of the six grand totals equals the sum
\* of that channel alone over all daily-aggregate rows.
C10_GrandTotals ==
    call # None =>
        \A c \in Channels : result.tot[c] = ChannelSum(call.daily_totals, c)

-----------------------------------------------------------------------------
(* Claims C11, C12, C18: the week banners in the text of write_summaries *)

\* where the week titles stand in a text
TitlePositions(text) == {i \in 1..Len(text) : text[i].piece = "week_title"}

\* where the data rows stand in a text
RowPositions(text) == {i \in 1..Len(text) : text[i].piece = "row"}

IsWeekTitle(p) == p.piece = "week_title"

\* the week numbers of the banners of a text, in the order of the text
BannerWeeks(text) ==
    LET titles == SelectSeq(text, IsWeekTitle)
    IN  [k \in 1..Len(titles) |-> titles[k].week]

\* n daily aggregates of consecutive days
ConsecutiveDays(rows, n) ==
    /\ Len(rows) = n
    /\ \A k \in 1..(n - 1) : rows[k + 1].date = NextDay(rows[k].date)

\* the call of the week-banner count: ten consecutive days from a Wednesday
TenDaysFromWednesday ==
    /\ call # None
    /\ ConsecutiveDays(call.daily_totals, 10)
    /\ Weekday(call.daily_totals[1].date) = 2

\* C11 as stated: ten consecutive daily aggregates from a Wednesday give exactly
\* two week banners, labelled base and base + 1.
C11_TwoBanners ==
    TenDaysFromWednesday =>
        BannerWeeks(result.text) = <<call.week_number, call.week_number + 1>>

\* C11 amended: ten consecutive daily aggregates from a Wednesday hold one Monday
\* (the sixth day), so the text has exactly one week banner, labelled base, and
\* the week number after the loop is base + 1.
C11_OneBanner ==
    TenDaysFromWednesday =>
        /\ BannerWeeks(result.text) = <<call.week_number>>
        /\ result.week = call.week_number + 1

\* write_summaries has run on ten consecutive days from a Wednesday, base 41
C11_Witness ==
    /\ TenDaysFromWednesday
    /\ call.week_number = 41
    /\ Cardinality(TitlePositions(result.text)) = 1

\* the Monday rows of a sequence of daily aggregates
MondayRows(rows) == {k \in 1..Len(rows) : Weekday(rows[k].date) = 0}

\* C12: the text has one week banner per Monday row and none elsewhere: every
\* banner stands directly in front of a Monday row, every Monday row has its
\* banner directly in front of it, and the k-th banner carries base + k - 1,
\* also when the first row is a Monday.
C12_BannerPerMonday ==
    call # None =>
        LET text == result.text
            n == Cardinality(MondayRows(call.daily_totals))
        IN  /\ BannerWeeks(text) = [k \in 1..n |-> call.week_number + k - 1]
            /\ \A i \in TitlePositions(text) :
                  /\ SubSeq(text, i, i + 6) = WeekBanner(text[i].week)
                  /\ i + 8 \in RowPositions(text)
                  /\ text[i + 8].weekday = 0
            /\ \A j \in RowPositions(text) :
                  text[j].weekday = 0 => (j - 8) \in TitlePositions(text)
            /\ Cardinality(RowPositions(text)) = Len(call.daily_totals)

\* a run that starts on a Monday and holds a second Monday and other days
C12_Witness ==
    /\ call # None
    /\ Len(call.daily_totals) >= 2
    /\ Weekday(call.daily_totals[1].date) = 0
    /\ Cardinality(MondayRows(call.daily_totals)) = 2
    /\ BannerWeeks(result.text) = <<41, 42>>

\* an empty line stands in front of position i of the text
BlankLineBefore(text, i) == i > 2 /\ text[i - 1] = NL /\ text[i - 2] = NL

\* the position of the first week title of a text that has one
FirstTitle(text) ==
    CHOOSE i \in TitlePositions(text) : \A j \in TitlePositions(text) : i <= j

\* C18 as stated: successive week banners are separated by a blank line and no
\* blank line stands in front of the first banner, whatever the first row is.
C18_NoBlankBeforeFirst ==
    call # None =>
        LET text == result.text IN
          \A i \in TitlePositions(text) :
              BlankLineBefore(text, i) <=> i # FirstTitle(text)

\* C18 amended: a blank line stands in front of a week banner exactly when the
\* text built so far is not empty: in front of every banner after the first, and
\* in front of the first banner exactly when the first row is not a Monday.
C18_BlankWhenNotEmpty ==
    call # None =>
        LET text == result.text IN
          \A i \in TitlePositions(text) :
              /\ BlankLineBefore(text, i) <=> i > 1
              /\ i = FirstTitle(text) =>
                    (i > 1 <=> Weekday(call.daily_totals[1].date) # 0)

\* a text with two banners whose first row is not a Monday
C18_Witness ==
    /\ call # None
    /\ Cardinality(TitlePositions(result.text)) = 2
    /\ Weekday(call.daily_totals[1].date) # 0
    /\ BlankLineBefore(result.text, FirstTitle(result.text))

-----------------------------------------------------------------------------
(* Claim C24 *)

\* a whole week banner stands somewhere in front of position j of the text
BannerBefore(text, j) ==
    \E i \in TitlePositions(text) :
        i + 6 < j /\ SubSeq(text, i, i + 6) = WeekBanner(text[i].week)

\* the position in the text of the row of the k-th daily aggregate
RowPosition(text, k) ==
    CHOOSE j \in RowPositions(text) :
        Cardinality({h \in RowPositions(text) : h <= j}) = k

\* C24 as stated: every daily data row of the text is preceded by a week banner
\* (title, two header lines, separator), also when the first row is not a Monday.
C24_EveryRowUnderBanner ==
    call # None =>
        \A j \in RowPositions(result.text) : BannerBefore(result.text, j)

\* C24 amended: a daily data row is preceded by a week banner exactly when it is
\* a Monday row or comes after one; the rows in front of the first Monday row
\* stand in the text with no banner in front of them.
C24_RowsFromFirstMonday ==
    call # None =>
        /\ Cardinality(RowPositions(result.text)) = Len(call.daily_totals)
        /\ \A k \in 1..Len(call.daily_totals) :
              BannerBefore(result.text, RowPosition(result.text, k))
                  <=> (\E m \in 1..k : Weekday(call.daily_totals[m].date) = 0)

\* a text whose first rows have no banner in front and whose later rows have one
C24_Witness ==
    /\ call # None
    /\ Len(call.daily_totals) >= 3
    /\ ~BannerBefore(result.text, RowPosition(result.text, 1))
    /\ BannerBefore(result.text, RowPosition(result.text, Len(call.daily_totals)))
    /\ Weekday(call.daily_totals[Len(call.daily_totals)].date) # 0

-----------------------------------------------------------------------------
(* TaskF: daily_summary, monthly_summary, yearly_summary *)

\* a converted row (convert_data): the timestamp is kept at the minute resolution
\* of the feed, which is all the summaries read of it (date, hour, minute)
Sample(dt, h, mi, vals) ==
    [timestamp |-> [date |-> dt, hour |-> h, minute |-> mi],
     consumption |-> vals[1], production |-> vals[2], average_temp |-> vals[3]]

Raised(e) == [raised |-> e]

IsRaised(r) == DOMAIN r = {"raised"}

\* the test of the start date alone
InRangeNoEnd(row, sd, ed) == DateLE(sd, row.timestamp.date)

\* row["timestamp"].date() >= startdate and row["timestamp"].date() <= enddate
InRangeMutant(row, sd, ed) ==
    DateLE(sd, row.timestamp.date) /\ DateLE(row.timestamp.date, ed)
        /\ row.timestamp.date # ed

InRange(row, sd, ed) ==
    DateLE(sd, row.timestamp.date) /\ DateLE(row.timestamp.date, ed)

\* row["timestamp"].date().month == month
InMonthMutant(row, m) == row.timestamp.date.month >= m

InMonth(row, m) == row.timestamp.date.month = m

\* row["timestamp"].hour == 0 and row["timestamp"].minute == 0
IsMidnightMutant(row) == row.timestamp.hour = 0

IsMidnight(row) == row.timestamp.hour = 0 /\ row.timestamp.minute = 0

ZeroSums == [total_cons |-> 0, total_prod |-> 0, temp_sum |-> 0, day_count |-> 0]

\* the body of the loops, for a selected row
Accumulate(acc, row) ==
    LET a == [acc EXCEPT !.total_cons = @ + row.consumption,
                         !.total_prod = @ + row.production]
    IN  IF IsMidnight(row)
        THEN [a EXCEPT !.temp_sum = @ + row.average_temp, !.day_count = @ + 1]
        ELSE a

\* temp_sum / day_count: a float divided by an int
DivideMutant(a, b) == IF b = 0 THEN [num |-> 0, den |-> 1] ELSE [num |-> a, den |-> b]

Divide(a, b) == IF b = 0 THEN Raised("ZeroDivisionError") ELSE [num |-> a, den |-> b]

\* the lines of a report: the header, the two totals, the average
Summary(label, acc) ==
    LET avg == Divide(acc.temp_sum, acc.day_count)
    IN  IF IsRaised(avg) THEN avg
        ELSE [label |-> label, total_cons |-> acc.total_cons,
              total_prod |-> acc.total_prod, avg_temp |-> avg]

\* The three loops "for row in data_list" run over the rows in order; each is
\* written as the loop over the first half of the rows followed by the loop over
\* the second half, which visits the same rows in the same order.  day_count
\* never goes below 0: reading it makes TLC compute the sums of the first half
\* before it starts on the second, so that a file of a whole year is evaluated
\* in a shallow nesting.
RECURSIVE RangeLoop(_, _, _, _)
RangeLoop(acc, rows, sd, ed) ==
    IF rows = <<>> THEN acc
    ELSE IF Len(rows) = 1
    THEN (IF InRange(rows[1], sd, ed) THEN Accumulate(acc, rows[1]) ELSE acc)
    ELSE LET half == RangeLoop(acc, SubSeq(rows, 1, Len(rows) \div 2), sd, ed)
         IN  IF half.day_count >= 0
             THEN RangeLoop(half, SubSeq(rows, (Len(rows) \div 2) + 1, Len(rows)), sd, ed)
             ELSE half

daily_summary(sd, ed, rows) ==
    Summary([kind |-> "period", startdate |-> sd, enddate |-> ed],
            RangeLoop(ZeroSums, rows, sd, ed))

RECURSIVE MonthLoop(_, _, _)
MonthLoop(acc, rows, m) ==
    IF rows = <<>> THEN acc
    ELSE IF Len(rows) = 1
    THEN (IF InMonth(rows[1], m) THEN Accumulate(acc, rows[1]) ELSE acc)
    ELSE LET half == MonthLoop(acc, SubSeq(rows, 1, Len(rows) \div 2), m)
         IN  IF half.day_count >= 0
             THEN MonthLoop(half, SubSeq(rows, (Len(rows) \div 2) + 1, Len(rows)), m)
             ELSE half

\* the header is MONTHS[month]
monthly_summary(m, rows) ==
    Summary([kind |-> "month", month |-> m], MonthLoop(ZeroSums, rows, m))

RECURSIVE YearLoop(_, _)
YearLoop(acc, rows) ==
    IF rows = <<>> THEN acc
    ELSE IF Len(rows) = 1 THEN Accumulate(acc, rows[1])
    ELSE LET half == YearLoop(acc, SubSeq(rows, 1, Len(rows) \div 2))
         IN  IF half.day_count >= 0
             THEN YearLoop(half, SubSeq(rows, (Len(rows) \div 2) + 1, Len(rows)))
             ELSE half

\* a yearly summary over the rows of the first sample's year only
yearly_summaryMutant(rows) ==
    IF rows = <<>> THEN Raised("IndexError")
    ELSE Summary([kind |-> "year", year |-> rows[1].timestamp.date.year],
                 YearLoop(ZeroSums,
                          SelectSeq(rows, LAMBDA r : r.timestamp.date.year
                                                       = rows[1].timestamp.date.year)))

\* year = data_list[0]["timestamp"].date().year comes first
yearly_summary(rows) ==
    IF rows = <<>> THEN Raised("IndexError")
    ELSE Summary([kind |-> "year", year |-> rows[1].timestamp.date.year],
                 YearLoop(ZeroSums, rows))

MaxSamples == 3

SampleDates == {Date(2024, 2, 29), Date(2025, 1, 31), Date(2025, 2, 1), Date(2025, 3, 1)}

\* hour and minute of the timestamps
SampleTimes == {<<0, 0>>, <<0, 30>>, <<12, 0>>}

\* consumption, production and average temperature of the row stamped dt, t
SampleVals(dt, t) ==
    <<dt.month + (IF t[1] = 0 THEN 0 ELSE 3), (dt.day % 4) + 1, dt.month - 2 - (t[2] \div 30)>>

Samples == {Sample(dt, t[1], t[2], SampleVals(dt, t)) : dt \in SampleDates, t \in SampleTimes}

ReportMonths == {1, 2, 12}

ReportInit ==
    /\ pc = "call"
    /\ data_list \in SeqsUpTo(Samples, MaxSamples)
    /\ idx = 1
    /\ days_list = <<>>
    /\ current_day = None
    /\ daycount = -1
    /\ out_file = NoFile
    /\ prev_file = NoFile
    /\ in_file = NoFile
    /\ written = <<>>
    /\ call = None
    /\ result = None
    /\ inp = None
    /\ prompt = "none"
    /\ flow = "none"
    /\ startdate = None
    /\ enddate = None
    /\ month = None
    /\ report = None
    /\ exit = FALSE

ReportUnchanged == UNCHANGED <<data_list, idx, days_list, current_day, daycount,
                               out_file, prev_file, in_file, written, inp, prompt, flow,
                               startdate, enddate, month, report, exit>>

CallDaily ==
    /\ pc = "call"
    /\ \E sd \in SampleDates, ed \in SampleDates :
         /\ call' = [fn |-> "daily_summary", startdate |-> sd, enddate |-> ed]
         /\ result' = daily_summary(sd, ed, data_list)
    /\ pc' = "returned"
    /\ ReportUnchanged

CallMonthly ==
    /\ pc = "call"
    /\ \E m \in ReportMonths :
         /\ call' = [fn |-> "monthly_summary", month |-> m]
         /\ result' = monthly_summary(m, data_list)
    /\ pc' = "returned"
    /\ ReportUnchanged

CallYearly ==
    /\ pc = "call"
    /\ call' = [fn |-> "yearly_summary"]
    /\ result' = yearly_summary(data_list)
    /\ pc' = "returned"
    /\ ReportUnchanged

ReportNext == CallDaily \/ CallMonthly \/ CallYearly

SpecReport == ReportInit /\ [][ReportNext]_vars

-----------------------------------------------------------------------------
(* Claims C6, C7, C8, C9 *)

\* the positions of the rows the last call selects
Selected ==
    {k \in 1..Len(data_list) :
        CASE call.fn = "daily_summary" ->
                 /\ ToOrdinal(call.startdate) <= ToOrdinal(data_list[k].timestamp.date)
                 /\ ToOrdinal(data_list[k].timestamp.date) <= ToOrdinal(call.enddate)
          [] call.fn = "monthly_summary" -> data_list[k].timestamp.date.month = call.month
          [] call.fn = "yearly_summary" -> TRUE}

\* the selected rows stamped 00:00
SelectedMidnight ==
    {k \in Selected : data_list[k].timestamp.hour = 0 /\ data_list[k].timestamp.minute = 0}

RECURSIVE SetSum(_, _)
\* the sum of f[k] over the k of S
SetSum(f, S) ==
    IF S = {} THEN 0 ELSE LET k == CHOOSE x \in S : TRUE IN f[k] + SetSum(f, S \ {k})

ConsOf == [k \in 1..Len(data_list) |-> data_list[k].consumption]
ProdOf == [k \in 1..Len(data_list) |-> data_list[k].production]
TempOf == [k \in 1..Len(data_list) |-> data_list[k].average_temp]

\* C6: a period report whose selection holds no midnight row ends in an error
\* (an exception); it returns no summary, so no average of 0 or NaN.
C6_NoMidnightIsError ==
    (pc = "returned" /\ SelectedMidnight = {}) => IsRaised(result)

\* a report has failed with ZeroDivisionError though rows were selected, none at 00:00
C6_Witness ==
    /\ pc = "returned"
    /\ Selected # {}
    /\ SelectedMidnight = {}
    /\ result = Raised("ZeroDivisionError")

\* C7: daily_summary reports as total consumption and total production the sums
\* over exactly the samples dated within [start, end], both bounds included.
C7_RangeTotals ==
    (pc = "returned" /\ call.fn = "daily_summary" /\ ~IsRaised(result)) =>
        /\ result.total_cons = SetSum(ConsOf, Selected)
        /\ result.total_prod = SetSum(ProdOf, Selected)

\* a range report with a sample on the end date and a sample outside the range
C7_Witness ==
    /\ pc = "returned"
    /\ call.fn = "daily_summary"
    /\ ~IsRaised(result)
    /\ call.startdate # call.enddate
    /\ \E k \in Selected : data_list[k].timestamp.date = call.enddate
    /\ \E k \in 1..Len(data_list) : k \notin Selected

\* the rows of month m, in order
RowsOfMonth(m) == SelectSeq(data_list, LAMBDA r : r.timestamp.date.month = m)

\* C8: monthly_summary reports as total consumption the sum of the consumption
\* of the rows of month m; the rows of other months do not change it.
C8_MonthTotal ==
    (pc = "returned" /\ call.fn = "monthly_summary" /\ ~IsRaised(result)) =>
        /\ result.total_cons = SetSum(ConsOf, Selected)
        /\ result.total_cons = monthly_summary(call.month, RowsOfMonth(call.month)).total_cons

\* a month report over data holding a row of that month and a row of a later month
C8_Witness ==
    /\ pc = "returned"
    /\ call.fn = "monthly_summary"
    /\ ~IsRaised(result)
    /\ Selected # {}
    /\ \E k \in 1..Len(data_list) : data_list[k].timestamp.date.month > call.month

\* C9: the average temperature of every period report is the sum of the
\* temperatures of the selected midnight samples over their number.
C9_MidnightAverage ==
    (pc = "returned" /\ ~IsRaised(result)) =>
        result.avg_temp = [num |-> SetSum(TempOf, SelectedMidnight),
                           den |-> Cardinality(SelectedMidnight)]

\* a report over a selection holding a midnight sample and a 00:30 sample
C9_Witness ==
    /\ pc = "returned"
    /\ ~IsRaised(result)
    /\ SelectedMidnight # {}
    /\ \E k \in Selected : data_list[k].timestamp.hour = 0 /\ data_list[k].timestamp.minute = 30
    /\ \E k \in 1..Len(data_list) : k \notin Selected /\ IsMidnight(data_list[k])

-----------------------------------------------------------------------------
(* Claim C21 *)

\* C21: yearly_summary selects every sample of the input whatever its year: the
\* totals are the sums over all rows, and the year in the header of the report is
\* the year of the first sample, also when later samples are of another year.
C21_YearlySelectsAll ==
    (pc = "returned" /\ call.fn = "yearly_summary" /\ ~IsRaised(result)) =>
        /\ result.total_cons = SetSum(ConsOf, 1..Len(data_list))
        /\ result.total_prod = SetSum(ProdOf, 1..Len(data_list))
        /\ result.label = [kind |-> "year", year |-> data_list[1].timestamp.date.year]

\* a yearly report over a first sample of 2024 followed by samples of 2025
C21_Witness ==
    /\ pc = "returned"
    /\ call.fn = "yearly_summary"
    /\ ~IsRaised(result)
    /\ Len(data_list) >= 2
    /\ data_list[1].timestamp.date.year = 2024
    /\ data_list[2].timestamp.date.year = 2025
    /\ result.label.year = 2024
    /\ result.total_cons > data_list[1].consumption

-----------------------------------------------------------------------------
(* Strings read by input(): a line is the sequence of its characters.  The  *)
(* character written "sup2" is the superscript two (U+00B2), a character    *)
(* str.isdigit() accepts and int() does not.                                *)

DecimalChars == {"0", "1", "2", "3", "4", "5", "6", "7", "8", "9"}

DigitValue(c) ==
    CASE c = "0" -> 0 [] c = "1" -> 1 [] c = "2" -> 2 [] c = "3" -> 3 [] c = "4" -> 4
      [] c = "5" -> 5 [] c = "6" -> 6 [] c = "7" -> 7 [] c = "8" -> 8 [] c = "9" -> 9

\* str.isdigit(): not empty, every character a digit character
isdigit(s) == Len(s) > 0 /\ \A k \in 1..Len(s) : s[k] \in DecimalChars \cup {"sup2"}

IsDecimal(s) == Len(s) > 0 /\ \A k \in 1..Len(s) : s[k] \in DecimalChars

RECURSIVE DecimalValue(_)
DecimalValue(s) ==
    IF s = <<>> THEN 0
    ELSE 10 * DecimalValue(SubSeq(s, 1, Len(s) - 1)) + DigitValue(s[Len(s)])

\* int(s), for the strings it is applied to here (those isdigit() accepts):
\* the value of a decimal string, a ValueError for any other
IntRaises(s) == ~IsDecimal(s)

int(s) == DecimalValue(s)

RECURSIVE lstrip(_)
lstrip(s) == IF s # <<>> /\ Head(s) = " " THEN lstrip(Tail(s)) ELSE s

RECURSIVE rstrip(_)
rstrip(s) ==
    IF s # <<>> /\ s[Len(s)] = " " THEN rstrip(SubSeq(s, 1, Len(s) - 1)) ELSE s

\* str.strip()
strip(s) == rstrip(lstrip(s))

RECURSIVE SplitDots(_)
\* the fields of s between its dots
SplitDots(s) ==
    IF \A k \in 1..Len(s) : s[k] # "." THEN <<s>>
    ELSE LET d == CHOOSE k \in 1..Len(s) : s[k] = "." /\ \A j \in 1..(k - 1) : s[j] # "."
         IN  <<SubSeq(s, 1, d - 1)>> \o SplitDots(SubSeq(s, d + 1, Len(s)))

\* %d: 3[0-1], [1-2]\d, 0[1-9], [1-9] or a space and [1-9]
IsDayField(f) ==
    \/ IsDecimal(f) /\ Len(f) \in {1, 2} /\ DecimalValue(f) \in 1..31
    \/ Len(f) = 2 /\ f[1] = " " /\ f[2] \in DecimalChars \ {"0"}

\* %m: 1[0-2], 0[1-9] or [1-9]
IsMonthField(f) == IsDecimal(f) /\ Len(f) \in {1, 2} /\ DecimalValue(f) \in 1..12

\* %Y: four digits
IsYearField(f) == IsDecimal(f) /\ Len(f) = 4

\* datetime.strptime(s, "%d.%m.%Y").date(), or the ValueError it raises
strptime(s) ==
    LET f == SplitDots(s) IN
    IF Len(f) # 3 \/ ~IsDayField(f[1]) \/ ~IsMonthField(f[2]) \/ ~IsYearField(f[3])
    THEN Raised("ValueError")
    ELSE LET y == DecimalValue(f[3])
             m == DecimalValue(f[2])
             d == DecimalValue(lstrip(f[1]))
         IN  IF y < 1 \/ d > DaysInMonth(y, m) THEN Raised("ValueError")
             ELSE Date(y, m, d)

-----------------------------------------------------------------------------
(* TaskF: the menus *)

\* write_data_to_file: open(OUT_FILE, "w") and write the report
write_data_to_fileMutant(file, data_str) == file

write_data_to_file(file, data_str) == File(<<data_str>>)

\* lines typed at the two menus
ChoiceInputs ==
    {<<"1">>, <<"2">>, <<"3">>, <<"4">>, <<"5">>, <<"0">>, <<"1", "2">>, <<" ", "1">>,
     <<"x">>, <<>>, <<"sup2">>}

\* lines typed at the month prompt
MonthInputs ==
    {<<"1", "3">>, <<"5">>, <<"1">>, <<"0", "3">>, <<" ", "2", " ">>, <<"1", "2">>,
     <<"0">>, <<"x">>, <<"5", ".", "0">>, <<>>, <<"sup2">>}

\* lines typed at the date prompts
DateInputs ==
    {<<"3", "1", ".", "0", "1", ".", "2", "0", "2", "5">>,
     <<"1", ".", "2", ".", "2", "0", "2", "5">>,
     <<"0", "1", ".", "0", "5", ".", "2", "0", "2", "5">>,
     <<"0", "1", ".", "0", "2", ".", "2", "0", "2", "4">>,
     <<"0", "1", ".", "0", "2", ".", "2", "0", "2", "6">>,
     <<"3", "1", ".", "0", "2", ".", "2", "0", "2", "5">>,
     <<"0", "1", ".", "1", "3", ".", "2", "0", "2", "5">>,
     <<"0", "1", ".", "0", "2", ".", "2", "5">>,
     <<"2", "0", "2", "5", "-", "0", "2", "-", "0", "1">>,
     <<>>}

\* what 2025.csv may hold: nothing but the header, or rows of four days, the
\* March day without a midnight row
MenuData ==
    {<<>>,
     <<Sample(Date(2025, 1, 31), 0, 0, <<1, 2, -3>>),
       Sample(Date(2025, 1, 31), 12, 0, <<2, 1, 4>>),
       Sample(Date(2025, 2, 1), 0, 0, <<3, 1, 5>>),
       Sample(Date(2025, 3, 1), 0, 30, <<1, 1, 2>>),
       Sample(Date(2025, 5, 1), 0, 0, <<2, 3, 7>>)>>}

\* the text an earlier program left in summary.txt
EarlierText == [piece |-> "earlier content"]

MenuInit ==
    /\ pc = "main"
    /\ data_list \in MenuData
    /\ idx = 1
    /\ days_list = <<>>
    /\ current_day = None
    /\ daycount = -1
    /\ out_file \in {NoFile, File(<<EarlierText>>)}
    /\ prev_file = NoFile
    /\ in_file = NoFile
    /\ written = <<>>
    /\ call = None
    /\ result = None
    /\ inp = None
    /\ prompt = "none"
    /\ flow = "none"
    /\ startdate = None
    /\ enddate = None
    /\ month = None
    /\ report = None
    /\ exit = FALSE

MenuUnchanged == UNCHANGED <<data_list, idx, days_list, current_day, daycount,
                             prev_file, in_file, written, call>>

\* an exception nobody catches ends the program
Crash(e) ==
    /\ pc' = "crashed"
    /\ result' = e

\* report = ...summary(...); print(report): the post-report menu comes next
ShowReport(r) ==
    IF IsRaised(r) THEN Crash(r) /\ report' = None
    ELSE pc' = "post" /\ report' = r /\ UNCHANGED result

\* mainmenu: one turn of the while loop
MainMenuChoice ==
    /\ pc = "main"
    /\ prompt' = "main"
    /\ \E choice \in ChoiceInputs :
         /\ inp' = choice
         /\ IF ~isdigit(choice)
            THEN UNCHANGED <<pc, flow, report, exit, result, startdate, enddate, month>>
            ELSE IF IntRaises(choice)
            THEN Crash(Raised("ValueError"))
                 /\ UNCHANGED <<flow, report, exit, startdate, enddate, month>>
            ELSE CASE int(choice) = 1 ->
                        /\ pc' = "start"
                        /\ flow' = "daily"
                        /\ startdate' = None
                        /\ enddate' = None
                        /\ UNCHANGED <<report, exit, result, month>>
                   [] int(choice) = 2 ->
                        /\ pc' = "month"
                        /\ flow' = "monthly"
                        /\ month' = None
                        /\ UNCHANGED <<report, exit, result, startdate, enddate>>
                   [] int(choice) = 3 ->
                        /\ flow' = "yearly"
                        /\ ShowReport(yearly_summary(data_list))
                        /\ UNCHANGED <<exit, startdate, enddate, month>>
                   [] int(choice) = 4 ->
                        /\ pc' = "exit"
                        /\ UNCHANGED <<flow, report, exit, result, startdate, enddate, month>>
                   [] OTHER ->
                        UNCHANGED <<pc, flow, report, exit, result, startdate, enddate, month>>
    /\ UNCHANGED out_file
    /\ MenuUnchanged

\* daily_summary_menu: one turn of the start-date loop
StartDateInput ==
    /\ pc = "start"
    /\ prompt' = "start"
    /\ \E sd_in \in DateInputs :
         /\ inp' = sd_in
         /\ IF IsRaised(strptime(sd_in))
            THEN UNCHANGED <<pc, startdate>>
            ELSE /\ startdate' = strptime(sd_in)
                 /\ pc' = IF strptime(sd_in).year = 2025 THEN "end" ELSE "start"
    /\ UNCHANGED <<out_file, flow, enddate, month, report, exit, result>>
    /\ MenuUnchanged

\* daily_summary_menu: one turn of the end-date loop; both branches of the
\* year test leave the loop, then the report is computed and shown
EndDateInput ==
    /\ pc = "end"
    /\ prompt' = "end"
    /\ \E ed_in \in DateInputs :
         /\ inp' = ed_in
         /\ IF IsRaised(strptime(ed_in))
            THEN UNCHANGED <<pc, enddate, report, result>>
            ELSE /\ enddate' = strptime(ed_in)
                 /\ ShowReport(daily_summary(startdate, strptime(ed_in), data_list))
    /\ UNCHANGED <<out_file, flow, startdate, month, exit>>
    /\ MenuUnchanged

\* monthly_summary_menu: one turn of the month loop, then the report
MonthInput ==
    /\ pc = "month"
    /\ prompt' = "month"
    /\ \E line \in MonthInputs :
         /\ inp' = line
         /\ IF ~isdigit(strip(line))
            THEN UNCHANGED <<pc, month, report, result>>
            ELSE IF IntRaises(strip(line))
            THEN Crash(Raised("ValueError")) /\ UNCHANGED <<month, report>>
            ELSE IF int(strip(line)) \notin 1..12
            THEN UNCHANGED <<pc, month, report, result>>
            ELSE /\ month' = strip(line)
                 /\ ShowReport(monthly_summary(int(strip(line)), data_list))
    /\ UNCHANGED <<out_file, flow, startdate, enddate, exit>>
    /\ MenuUnchanged

\* a submenu that always makes mainmenu break
AfterSubmenuBreaks(e) == "exit"

\* a submenu whose result mainmenu never looks at
AfterSubmenuGoesOn(e) == "main"

\* mainmenu breaking when the submenu returned False
AfterSubmenuNegated(e) == IF e THEN "main" ELSE "exit"

\* exit = ..._summary_menu(); if exit: break
AfterSubmenu(e) == IF e THEN "exit" ELSE "main"

\* a submenu returns to mainmenu: its locals are gone
Returned ==
    /\ flow' = "none"
    /\ report' = None
    /\ startdate' = None
    /\ enddate' = None
    /\ month' = None

\* the post-report menu of the three submenus: one turn of the while loop
PostReportChoice ==
    /\ pc = "post"
    /\ prompt' = "post"
    /\ \E choice \in ChoiceInputs :
         /\ inp' = choice
         /\ IF ~isdigit(choice)
            THEN UNCHANGED <<pc, out_file, flow, report, exit, result,
                             startdate, enddate, month>>
            ELSE IF IntRaises(choice)
            THEN Crash(Raised("ValueError"))
                 /\ UNCHANGED <<out_file, flow, report, exit, startdate, enddate, month>>
            ELSE CASE int(choice) = 1 ->
                        /\ out_file' = write_data_to_file(out_file, report)
                        /\ UNCHANGED <<pc, flow, report, exit, result,
                                       startdate, enddate, month>>
                   [] int(choice) = 2 ->
                        /\ exit' = FALSE
                        /\ pc' = AfterSubmenu(FALSE)
                        /\ Returned
                        /\ UNCHANGED <<out_file, result>>
                   [] int(choice) = 3 ->
                        /\ exit' = TRUE
                        /\ pc' = AfterSubmenu(TRUE)
                        /\ Returned
                        /\ UNCHANGED <<out_file, result>>
                   [] OTHER ->
                        UNCHANGED <<pc, out_file, flow, report, exit, result,
                                    startdate, enddate, month>>
    /\ MenuUnchanged

MenuNext ==
    MainMenuChoice \/ StartDateInput \/ EndDateInput \/ MonthInput \/ PostReportChoice

SpecMenu == MenuInit /\ [][MenuNext]_vars

-----------------------------------------------------------------------------
(* Claims C14, C15, C16, C17: the post-report menu and the main menu *)

\* the step is a turn of the post-report menu in which the line c is typed
PostChoiceTyped(c) == pc = "post" /\ prompt' = "post" /\ inp' = c

\* C14: in the post-report menu of every flow, 'save' writes the current report
\* to the output file and comes back to the same post-report menu with the same
\* report current, so it can be chosen again; no parameter is asked for and no
\* report is computed in between.
C14_SaveStaysInPostMenu ==
    [][PostChoiceTyped(<<"1">>) =>
          /\ out_file'.exists
          /\ Len(out_file'.content) >= 1
          /\ out_file'.content[Len(out_file'.content)] = report
          /\ pc' = "post"
          /\ UNCHANGED <<report, flow, startdate, enddate, month, data_list, exit>>]_vars

\* the report of a date range has just been saved from its post-report menu
C14_Witness ==
    /\ pc = "post"
    /\ prompt = "post"
    /\ inp = <<"1">>
    /\ flow = "daily"
    /\ out_file = File(<<report>>)

\* C15: 'new report' in the post-report menu of any flow gives control back to
\* the main menu: not to the prompts of the same flow and not to the end of the
\* program; at the main menu each of the three kinds of report and exit can be
\* chosen next.
C15_NewReportToMainMenu ==
    /\ [][PostChoiceTyped(<<"2">>) => pc' = "main" /\ ~exit' /\ UNCHANGED out_file]_vars
    /\ [](pc = "main" =>
            /\ ENABLED (MainMenuChoice /\ pc' = "start")
            /\ ENABLED (MainMenuChoice /\ pc' = "month")
            /\ ENABLED (MainMenuChoice /\ flow' = "yearly")
            /\ ENABLED (MainMenuChoice /\ pc' = "exit"))

\* 'new report' has been chosen after a report and the main menu is shown
C15_Witness ==
    /\ pc = "main"
    /\ prompt = "post"
    /\ inp = <<"2">>
    /\ ~exit

\* C16: 'exit' in the post-report menu of any flow goes through mainmenu and
\* ends the program: the file is not written, and after the end no prompt is
\* shown, no report is computed and no file is written.
C16_ExitEndsProgram ==
    [][/\ PostChoiceTyped(<<"3">>) => pc' = "exit" /\ exit' /\ UNCHANGED out_file
       /\ pc # "exit"]_vars

\* 'exit' has been chosen after a report and the program has ended
C16_Witness ==
    /\ pc = "exit"
    /\ prompt = "post"
    /\ inp = <<"3">>
    /\ exit

\* the line is one of the numbers the menu offers: 1..4 at the main menu,
\* 1..3 at a post-report menu
OfferedChoice(s, menu) ==
    IsDecimal(s) /\ DecimalValue(s) \in (IF menu = "main" THEN 1..4 ELSE 1..3)

\* C17: at the main menu and at every post-report menu a line that is not a
\* number, or a number outside the range of the menu, shows the same menu
\* again: the program neither ends nor fails.
C17_InvalidChoiceShowsMenuAgain ==
    (prompt \in {"main", "post"} /\ ~OfferedChoice(inp, prompt)) => pc = prompt

-----------------------------------------------------------------------------
(* Claim C22 *)

\* the step types the number n at the menu shown at pc
ChoiceTyped(menu, n) ==
    pc = menu /\ prompt' = menu /\ IsDecimal(inp') /\ DecimalValue(inp') = n

\* C22: the menu program comes to its normal end only through an explicit exit
\* choice: 4 at the main menu or 3 at a post-report menu. No other line at any
\* prompt (invalid choice, invalid date or month, save, new report) ends the
\* program normally.
C22_ExitOnlyByChoice ==
    [][pc' = "exit" => (ChoiceTyped("main", 4) \/ ChoiceTyped("post", 3))]_vars

\* the program has ended after 4 was typed at the main menu
C22_Witness ==
    /\ pc = "exit"
    /\ prompt = "main"
    /\ inp = <<"4">>
    /\ ~exit

-----------------------------------------------------------------------------
(* Claims C3, C4, C5 *)

\* a is the front of b
IsPrefix(a, b) == Len(a) <= Len(b) /\ SubSeq(b, 1, Len(a)) = a

\* C3: saving from the menu never truncates the output file: what the file
\* held before a save is still there, unchanged, at the front of the file.
C3_SaveNeverTruncates ==
    [][out_file.exists =>
         out_file'.exists /\ IsPrefix(out_file.content, out_file'.content)]_vars

\* the line parses as DD.MM.YYYY and names a day of 2025
IsDateOf2025(s) == ~IsRaised(strptime(s)) /\ strptime(s).year = 2025

\* C4: the start-date prompt and the end-date prompt each accept a line if and
\* only if it parses as DD.MM.YYYY with the year 2025; after any other line the
\* same prompt is shown again and the program goes on.
C4_DatePromptsAcceptOnly2025 ==
    /\ prompt = "start" => pc = (IF IsDateOf2025(inp) THEN "end" ELSE "start")
    /\ prompt = "end" => (IF IsDateOf2025(inp) THEN pc \in {"post", "crashed"}
                                                ELSE pc = "end")

\* the line, stripped, is a decimal integer of 1..12
IsMonthNumber(s) == IsDecimal(strip(s)) /\ DecimalValue(strip(s)) \in 1..12

\* C5: the month prompt shows itself again after every line that is not an
\* integer of 1..12 and accepts the first that is; the report then produced is
\* the report of exactly that month.
C5_MonthPrompt ==
    /\ (prompt = "month" /\ ~IsMonthNumber(inp)) => pc = "month"
    /\ (prompt = "month" /\ IsMonthNumber(inp)) => pc \in {"post", "crashed"}
    /\ (prompt = "month" /\ IsMonthNumber(inp) /\ pc = "post") =>
          report.label = [kind |-> "month", month |-> DecimalValue(strip(inp))]

-----------------------------------------------------------------------------
(* TaskD / TaskE / TaskF: read_data, convert_data *)

\* K = 1000.00: Wh to kWh
K == 1000

MaxLines == 2

\* the pieces of a line of the CSV file: the delimiter, a timestamp written
\* YYYY-MM-DDTHH:MM:00, a number written "w", "w.f" or "w,f", a word
Semicolon == [piece |-> ";"]
TimestampText(dt, h, mi) == [piece |-> "timestamp", date |-> dt, hour |-> h, minute |-> mi]
NumberText(w, mark, f) == [piece |-> "number", whole |-> w, mark |-> mark, frac |-> f]
Word(t) == [piece |-> "word", text |-> t]

RECURSIVE split(_)
\* line.split(";"): the fields of a line, the newline staying in the last one
split(line) ==
    IF line = <<>> THEN << <<>> >>
    ELSE LET rest == split(Tail(line))
         IN  IF Head(line) = Semicolon THEN << <<>> >> \o rest
             ELSE << <<Head(line)>> \o Head(rest) >> \o Tail(rest)

\* the year, month and day name a day of the calendar
ValidDate(dt) ==
    dt.year >= 1 /\ dt.month \in 1..12 /\ dt.day \in 1..DaysInMonth(dt.year, dt.month)

\* the text is one timestamp and nothing else
ParsesAsTimestamp(text) ==
    /\ Len(text) = 1
    /\ text[1].piece = "timestamp"
    /\ ValidDate(text[1].date)
    /\ text[1].hour \in 0..23
    /\ text[1].minute \in 0..59

\* datetime.strptime(raw_data[0], "%Y-%m-%dT%H:%M:%S")
strptime_T(text) ==
    IF ParsesAsTimestamp(text)
    THEN [date |-> text[1].date, hour |-> text[1].hour, minute |-> text[1].minute]
    ELSE Raised("ValueError")

\* datetime.fromisoformat(data_row[0])
fromisoformat(text) ==
    IF ParsesAsTimestamp(text)
    THEN [date |-> text[1].date, hour |-> text[1].hour, minute |-> text[1].minute]
    ELSE Raised("ValueError")

\* the text without the newline at its end (float ignores white space around)
WithoutNewline(text) ==
    IF text # <<>> /\ text[Len(text)] = NL THEN SubSeq(text, 1, Len(text) - 1) ELSE text

\* float(s): one number whose decimal mark, if any, is "."
float(text) ==
    LET t == WithoutNewline(text)
    IN  IF Len(t) = 1 /\ t[1].piece = "number" /\ t[1].mark # ","
        THEN [num |-> 10 * t[1].whole + t[1].frac, den |-> 10]
        ELSE Raised("ValueError")

\* s.replace(",", ".")
replace(text) ==
    [k \in 1..Len(text) |->
        IF text[k].piece = "number" /\ text[k].mark = ","
        THEN [text[k] EXCEPT !.mark = "."]
        ELSE text[k]]

\* the first exception of a sequence of evaluations, or no exception
FirstRaised(vals) ==
    LET bad == {i \in 1..Len(vals) : IsRaised(vals[i])}
    IN  IF bad = {} THEN None ELSE vals[CHOOSE i \in bad : \A j \in bad : i <= j]

\* whether raw_data[i] exists, the index counting from 0 (else IndexError)
HasField(row, i) == (i + 1) \in DOMAIN row

\* raw_data[i]
Field(row, i) == row[i + 1]

\* TaskD, TaskE: float(raw_data[i]) / K
PhaseValue(raw_data, i) ==
    IF ~HasField(raw_data, i) THEN Raised("IndexError")
    ELSE IF IsRaised(float(Field(raw_data, i))) THEN float(Field(raw_data, i))
    ELSE [num |-> float(Field(raw_data, i)).num, den |-> float(Field(raw_data, i)).den * K]

\* TaskD, TaskE convert_data: [timestamp_dt, cons_p1 .. prod_p3]
convert_data_TaskD(raw_data) ==
    LET steps == <<strptime_T(Field(raw_data, 0))>>
                     \o [i \in 1..6 |-> PhaseValue(raw_data, i)]
    IN  IF FirstRaised(steps) # None THEN FirstRaised(steps)
        ELSE [timestamp |-> steps[1], v |-> Tail(steps)]

\* TaskF: float(data_row[i].replace(",", "."))
FloatValue(data_row, i) ==
    IF ~HasField(data_row, i) THEN Raised("IndexError")
    ELSE float(replace(Field(data_row, i)))

\* TaskF convert_data: the dict of timestamp, consumption, production, average_temp
convert_data_TaskF(data_row) ==
    LET steps == <<fromisoformat(Field(data_row, 0))>>
                     \o [i \in 1..3 |-> FloatValue(data_row, i)]
    IN  IF FirstRaised(steps) # None THEN FirstRaised(steps)
        ELSE [timestamp |-> steps[1], consumption |-> steps[2],
              production |-> steps[3], average_temp |-> steps[4]]

\* the convert_data of the program that runs
convert_data(task, row) ==
    IF task = "TaskD" THEN convert_data_TaskD(row) ELSE convert_data_TaskF(row)

RECURSIVE JoinFields(_)
JoinFields(fields) ==
    IF Len(fields) = 1 THEN Head(fields)
    ELSE Head(fields) \o <<Semicolon>> \o JoinFields(Tail(fields))

\* a line of the file: the texts of its fields, semicolons between them, a newline
CsvLine(fields) == JoinFields(fields) \o <<NL>>

\* the texts of n whole numbers from k
Numbers(k, n) == [i \in 1..n |-> <<NumberText(k + i - 1, "none", 0)>>]

Midnight13 == <<TimestampText(Date(2025, 10, 13), 0, 0)>>
Noon13 == <<TimestampText(Date(2025, 10, 13), 12, 0)>>

\* lines of week42.csv: two good ones, then a 13th month, a word for a number,
\* a decimal comma, six fields, eight fields, an empty line
TaskDLines ==
    {CsvLine(<<Midnight13>> \o Numbers(1, 6)),
     CsvLine(<<Noon13, <<NumberText(1, ".", 5)>> >> \o Numbers(2, 5)),
     CsvLine(<< <<TimestampText(Date(2025, 13, 13), 0, 0)>> >> \o Numbers(1, 6)),
     CsvLine(<<Midnight13>> \o Numbers(1, 2) \o << <<Word("x")>> >> \o Numbers(4, 3)),
     CsvLine(<<Midnight13, <<NumberText(1, ",", 5)>> >> \o Numbers(2, 5)),
     CsvLine(<<Midnight13>> \o Numbers(1, 5)),
     CsvLine(<<Midnight13>> \o Numbers(1, 7)),
     <<NL>>}

\* lines of 2025.csv: two good ones (decimal point, decimal comma), then a 13th
\* month, a word for a number, three fields, five fields, an empty line
TaskFLines ==
    {CsvLine(<<Midnight13, <<NumberText(1, ".", 5)>> >> \o Numbers(2, 2)),
     CsvLine(<<Noon13, <<NumberText(2, ",", 5)>> >> \o Numbers(3, 2)),
     CsvLine(<< <<TimestampText(Date(2025, 13, 13), 0, 0)>> >> \o Numbers(1, 3)),
     CsvLine(<<Midnight13>> \o Numbers(1, 1) \o << <<Word("x")>> >> \o Numbers(3, 1)),
     CsvLine(<<Midnight13>> \o Numbers(1, 2)),
     CsvLine(<<Midnight13>> \o Numbers(1, 4)),
     <<NL>>}

\* the heading row of the file
HeaderLine(task) ==
    CsvLine([i \in 1..(IF task = "TaskD" THEN 7 ELSE 4) |-> <<Word("heading")>>])

\* the file may be missing, empty, or hold the heading row and up to MaxLines lines
CsvFiles(task) ==
    {NoFile, File(<<>>)}
        \cup {File(<<HeaderLine(task)>> \o body) :
                body \in SeqsUpTo(IF task = "TaskD" THEN TaskDLines ELSE TaskFLines,
                                  MaxLines)}

IngestInit ==
    /\ pc = "read_open"
    /\ \E task \in {"TaskD", "TaskF"} :
         /\ call = [fn |-> "read_data", task |-> task]
         /\ in_file \in CsvFiles(task)
    /\ data_list = <<>>
    /\ idx = 1
    /\ days_list = <<>>
    /\ current_day = None
    /\ daycount = -1
    /\ out_file = NoFile
    /\ prev_file = NoFile
    /\ written = <<>>
    /\ result = None
    /\ inp = None
    /\ prompt = "none"
    /\ flow = "none"
    /\ startdate = None
    /\ enddate = None
    /\ month = None
    /\ report = None
    /\ exit = FALSE

IngestUnchanged == UNCHANGED <<days_list, current_day, daycount, out_file, prev_file,
                               in_file, written, call, inp, prompt, flow, startdate,
                               enddate, month, report, exit>>

\* with open(filename, "r") ...: for line in f: the lines are split; the loop
\* over data_rows[1:] comes next
ReadLines ==
    /\ pc = "read_open"
    /\ IF in_file.exists
       THEN pc' = "convert_loop" /\ idx' = 2 /\ UNCHANGED result
       ELSE Crash(Raised("FileNotFoundError")) /\ UNCHANGED idx
    /\ UNCHANGED data_list
    /\ IngestUnchanged

\* one iteration of "for row in data_rows[1:]": converted_data.append(convert_data(row))
ConvertRow ==
    /\ pc = "convert_loop"
    /\ idx <= Len(in_file.content)
    /\ LET row == convert_data(call.task, split(in_file.content[idx]))
       IN  IF IsRaised(row)
           THEN Crash(row) /\ UNCHANGED <<data_list, idx>>
           ELSE /\ data_list' = Append(data_list, row)
                /\ idx' = idx + 1
                /\ UNCHANGED <<pc, result>>
    /\ IngestUnchanged

\* the loop is exhausted: return converted_data
ReadReturn ==
    /\ pc = "convert_loop"
    /\ idx > Len(in_file.content)
    /\ pc' = "read_done"
    /\ result' = data_list
    /\ UNCHANGED <<data_list, idx>>
    /\ IngestUnchanged

IngestNext == ReadLines \/ ConvertRow \/ ReadReturn

SpecIngest == IngestInit /\ [][IngestNext]_vars

-----------------------------------------------------------------------------
(* Claim C13 *)

\* the number of fields a data row of the feed has
ExpectedFields(task) == IF task = "TaskD" THEN 7 ELSE 4

\* the text is one number in the notation of the feed: TaskF takes the decimal
\* comma and the decimal point, TaskD and TaskE the decimal point only
IsNumeric(task, text) ==
    LET t == WithoutNewline(text)
    IN  Len(t) = 1 /\ t[1].piece = "number" /\ (t[1].mark = "," => task = "TaskF")

\* a data row with the expected number of fields, a good timestamp and numbers
WellFormed(task, line) ==
    LET fields == split(line)
    IN  /\ Len(fields) = ExpectedFields(task)
        /\ ParsesAsTimestamp(fields[1])
        /\ \A i \in 2..Len(fields) : IsNumeric(task, fields[i])

\* the lines after the heading row
DataLines(file) == IF file.content = <<>> THEN <<>> ELSE Tail(file.content)

\* C13: ingestion is all-or-nothing. If any data row after the header has a bad
\* timestamp, a field that is not a number, or a number of fields other than
\* the expected one (fewer or more), read_data ends with an error and returns
\* no list; otherwise it returns one sample per data row in file order, and the
\* header row is never parsed.
C13_AllOrNothing ==
    (in_file.exists /\ pc \in {"read_done", "crashed"}) =>
        LET lines == DataLines(in_file)
        IN  IF \E k \in 1..Len(lines) : ~WellFormed(call.task, lines[k])
            THEN pc = "crashed" /\ IsRaised(result)
            ELSE /\ pc = "read_done"
                 /\ Len(result) = Len(lines)
                 /\ \A k \in 1..Len(lines) :
                      result[k].timestamp = strptime_T(split(lines[k])[1])

-----------------------------------------------------------------------------
(* TaskF: the menus over a data file with a midnight row for every day of 2025 *)

\* the k-th day of the year y
DayOfYear(y, k) ==
    LET m == CHOOSE mm \in 1..12 :
                 DaysBeforeMonth(y, mm) < k /\ k <= DaysBeforeMonth(y, mm) + DaysInMonth(y, mm)
    IN  Date(y, m, k - DaysBeforeMonth(y, m))

\* the 00:00 sample of the day dt
MidnightRow(dt) == Sample(dt, 0, 0, <<(dt.day % 3) + 1, dt.month % 2, dt.month - 6>>)

\* what read_data returns for a 2025.csv of one midnight row for every day
FullYear2025 ==
    [k \in 1..(DaysBeforeYear(2026) - DaysBeforeYear(2025)) |-> MidnightRow(DayOfYear(2025, k))]

YearInit ==
    /\ pc = "main"
    /\ data_list = FullYear2025
    /\ idx = 1
    /\ days_list = <<>>
    /\ current_day = None
    /\ daycount = -1
    /\ out_file \in {NoFile, File(<<EarlierText>>)}
    /\ prev_file = NoFile
    /\ in_file = NoFile
    /\ written = <<>>
    /\ call = None
    /\ result = None
    /\ inp = None
    /\ prompt = "none"
    /\ flow = "none"
    /\ startdate = None
    /\ enddate = None
    /\ month = None
    /\ report = None
    /\ exit = FALSE

SpecYear == YearInit /\ [][MenuNext]_vars

-----------------------------------------------------------------------------
(* Claim C23 *)

\* the end-date prompt has just taken a line it accepts: one that parses
EndDateAccepted == prompt = "end" /\ ~IsRaised(strptime(inp))

\* C23 as stated: with a midnight sample for every day of 2025 in the file,
\* every pair of start and end date the two prompts accept leads to a report and
\* to the post-report menu; no accepted pair makes the program fail.
C23_AcceptedPairGivesReport ==
    EndDateAccepted => pc = "post"

\* C23 amended: with a midnight sample for every day of 2025 in the file, an
\* accepted pair leads to a report and to the post-report menu exactly when the
\* start date is not later than the end date; a pair whose range holds no day
\* (start later than end) ends the program with ZeroDivisionError.
C23_ReportWhenRangeNotEmpty ==
    EndDateAccepted =>
        IF DateLE(startdate, strptime(inp))
        THEN /\ pc = "post"
             /\ report.label = [kind |-> "period", startdate |-> startdate,
                                 enddate |-> strptime(inp)]
             /\ report.avg_temp.den
                    = ToOrdinal(IF strptime(inp).year = 2025 THEN strptime(inp)
                                ELSE Date(2025, 12, 31)) - ToOrdinal(startdate) + 1
        ELSE pc = "crashed" /\ result = Raised("ZeroDivisionError")

\* a range of several days of the full year has been reported
C23_Witness ==
    /\ EndDateAccepted
    /\ Len(data_list) > 300
    /\ pc = "post"
    /\ startdate # enddate
    /\ report.avg_temp.den > 1

-----------------------------------------------------------------------------
\* TaskA, TaskB: the printers of the one reservation of reservations.txt

\* the pieces of the text of a reservations file besides numbers, words and
\* newlines: the delimiter, a blank, a date written YYYY-MM-DD, a time written
\* HH:MM (or HH:MM:SS when seconds holds), a date and time written
\* YYYY-MM-DD HH:MM:SS
Bar == [piece |-> "|"]
Space == [piece |-> " "]
DateText(dt) == [piece |-> "date", date |-> dt]
TimeText(h, mi, secs) == [piece |-> "time", hour |-> h, minute |-> mi, seconds |-> secs]
CreatedText(dt, h, mi) == [piece |-> "created", date |-> dt, hour |-> h, minute |-> mi]

RECURSIVE split_R(_)
\* text.split("|"): the fields of a text
split_R(text) ==
    IF text = <<>> THEN << <<>> >>
    ELSE LET rest == split_R(Tail(text))
         IN  IF Head(text) = Bar THEN << <<>> >> \o rest
             ELSE << <<Head(text)>> \o Head(rest) >> \o Tail(rest)

RECURSIVE strip_R(_)
\* text.strip(): the text without the white space at its two ends
strip_R(text) ==
    IF text = <<>> THEN text
    ELSE IF Head(text) \in {Space, NL} THEN strip_R(Tail(text))
    ELSE IF text[Len(text)] \in {Space, NL} THEN strip_R(SubSeq(text, 1, Len(text) - 1))
    ELSE text

\* int(s): one whole number, white space around it ignored
int_R(text) ==
    LET t == strip_R(text)
    IN  IF Len(t) = 1 /\ t[1].piece = "number" /\ t[1].mark = "none"
        THEN [int |-> t[1].whole]
        ELSE Raised("ValueError")

\* float(s), white space around the number ignored
float_R(text) == float(strip_R(text))

\* datetime.strptime(s, "%Y-%m-%d").date()
strptime_date(text) ==
    IF Len(text) = 1 /\ text[1].piece = "date" /\ ValidDate(text[1].date)
    THEN text[1].date
    ELSE Raised("ValueError")

\* datetime.strptime(s, "%H:%M").time()
strptime_time(text) ==
    IF /\ Len(text) = 1
       /\ text[1].piece = "time"
       /\ ~text[1].seconds
       /\ text[1].hour \in 0..23
       /\ text[1].minute \in 0..59
    THEN [hour |-> text[1].hour, minute |-> text[1].minute]
    ELSE Raised("ValueError")

\* bool(s) of a string: whether it is not empty
bool(text) == text # <<>>

\* a printed line: its label and what follows it
Line(label, value) == [label |-> label, value |-> value]

\* the converted reservation[i], IndexError when there is no such field
Converted(reservation, i, value) ==
    IF HasField(reservation, i) THEN value ELSE Raised("IndexError")

\* what a step prints when its conversion went through
PrintsUnless(val, line) == IF IsRaised(val) THEN val ELSE line

\* a string field as it is
AsText(text) == [text |-> text]

\* hours * hourly_rate, an exception of either conversion coming first
TotalPrice(hours, rate) ==
    IF IsRaised(hours) THEN hours
    ELSE IF IsRaised(rate) THEN rate
    ELSE [num |-> hours.int * rate.num, den |-> rate.den]

print_reservation_number(reservation) ==
    LET reservation_number == Converted(reservation, 0, int_R(Field(reservation, 0)))
    IN  PrintsUnless(reservation_number, Line("Reservation number", reservation_number))

print_booker(reservation) ==
    LET booker == Converted(reservation, 1, AsText(Field(reservation, 1)))
    IN  PrintsUnless(booker, Line("Booker", booker))

print_date(reservation) ==
    LET date == Converted(reservation, 2, strptime_date(Field(reservation, 2)))
    IN  PrintsUnless(date, Line("Date", date))

print_start_time(reservation) ==
    LET start_time == Converted(reservation, 3, strptime_time(Field(reservation, 3)))
    IN  PrintsUnless(start_time, Line("Start time", start_time))

print_hours(reservation) ==
    LET hours == Converted(reservation, 4, int_R(Field(reservation, 4)))
    IN  PrintsUnless(hours, Line("Number of hours", hours))

print_hourly_rate(reservation) ==
    LET hourly_rate == Converted(reservation, 5, float_R(Field(reservation, 5)))
    IN  PrintsUnless(hourly_rate, Line("Hourly rate", hourly_rate))

print_total_price(reservation) ==
    LET total_price == TotalPrice(Converted(reservation, 4, int_R(Field(reservation, 4))),
                                  Converted(reservation, 5, float_R(Field(reservation, 5))))
    IN  PrintsUnless(total_price, Line("Total price", total_price))

\* paid = bool(reservation[6]); print(f"Paid: {'Yes' if paid else 'No'}")
PaidWord(paid) == IF paid THEN "Yes" ELSE "No"

print_paid(reservation) ==
    IF HasField(reservation, 6)
    THEN Line("Paid", PaidWord(bool(Field(reservation, 6))))
    ELSE Raised("IndexError")

print_venue(reservation) ==
    LET venue == Converted(reservation, 7, AsText(Field(reservation, 7)))
    IN  PrintsUnless(venue, Line("Location", venue))

print_phone(reservation) ==
    LET phone == Converted(reservation, 8, AsText(Field(reservation, 8)))
    IN  PrintsUnless(phone, Line("Phone", phone))

print_email(reservation) ==
    LET email == Converted(reservation, 9, AsText(Field(reservation, 9)))
    IN  PrintsUnless(email, Line("Email", email))

\* the steps of a run in their order: what each prints, or the exception it raises
Steps(reservation) ==
    <<print_reservation_number(reservation), print_booker(reservation),
      print_date(reservation), print_start_time(reservation),
      print_hours(reservation), print_hourly_rate(reservation),
      print_total_price(reservation), print_paid(reservation),
      print_venue(reservation), print_phone(reservation), print_email(reservation)>>

\* the steps before the first one that raises
Before(steps) ==
    LET bad == {i \in 1..Len(steps) : IsRaised(steps[i])}
    IN  IF bad = {} THEN steps
        ELSE SubSeq(steps, 1, (CHOOSE i \in bad : \A j \in bad : i <= j) - 1)

\* what a run leaves on the console, and the exception that ended it (or None)
Console(lines, raised) == [lines |-> lines, raised |-> raised]

\* TaskB main: the file is read, stripped and split, then the eleven printers
\* run one after the other, each converting its own field
main_TaskB(file) ==
    IF ~file.exists THEN Console(<<>>, Raised("FileNotFoundError"))
    ELSE LET steps == Steps(split_R(strip_R(file.content)))
         IN  Console(Before(steps), FirstRaised(steps))

\* TaskA prints "Hourly price" where TaskB prints "Hourly rate"
LineOfTaskA(line) ==
    IF line.label = "Hourly rate" THEN Line("Hourly price", line.value) ELSE line

\* TaskA main: the same fields converted in the same order, all of them before
\* the first print
main_TaskA(file) ==
    IF ~file.exists THEN Console(<<>>, Raised("FileNotFoundError"))
    ELSE LET steps == Steps(split_R(strip_R(file.content)))
         IN  IF FirstRaised(steps) # None THEN Console(<<>>, FirstRaised(steps))
             ELSE Console([k \in 1..Len(steps) |-> LineOfTaskA(steps[k])], None)

RECURSIVE JoinBars(_)
\* the texts of the fields with the delimiter between them
JoinBars(fields) ==
    IF Len(fields) = 1 THEN Head(fields)
    ELSE Head(fields) \o <<Bar>> \o JoinBars(Tail(fields))

\* a reservations.txt of TaskA and TaskB: ten fields and a newline at the end
ReservationText(time, hours, price, paid) ==
    JoinBars(<< <<NumberText(123, "none", 0)>>, <<Word("Anna Virtanen")>>,
                <<DateText(Date(2025, 10, 31))>>, time, hours, price, paid,
                <<Word("Meeting Room A")>>, <<Word("0401234567")>>,
                <<Word("anna.virtanen@example.com")>> >>) \o <<NL>>

\* the paid field: the two texts of a truth value, another word, nothing
PaidTexts == {<<Word("True")>>, <<Word("False")>>, <<Word("no")>>, <<>>}

\* the file may be missing, empty, cut short after the price, or hold a whole
\* reservation whose time, hours and price may be ill-written
PrinterFiles ==
    {NoFile, File(<<>>),
     File(JoinBars(<< <<NumberText(123, "none", 0)>>, <<Word("Anna Virtanen")>>,
                      <<DateText(Date(2025, 10, 31))>>, <<TimeText(10, 0, FALSE)>>,
                      <<NumberText(2, "none", 0)>>, <<NumberText(19, ".", 9)>> >>))}
        \cup {File(ReservationText(time, hours, price, paid)) :
                time \in {<<TimeText(10, 0, FALSE)>>, <<TimeText(10, 0, TRUE)>>},
                hours \in {<<NumberText(2, "none", 0)>>, <<NumberText(2, ".", 5)>>},
                price \in {<<NumberText(19, ".", 9)>>, <<NumberText(19, ",", 9)>>},
                paid \in PaidTexts}

PrinterInit ==
    /\ pc = "printers"
    /\ in_file \in PrinterFiles
    /\ call = [fn |-> "main"]
    /\ written = <<>>
    /\ data_list = <<>>
    /\ idx = 1
    /\ days_list = <<>>
    /\ current_day = None
    /\ daycount = -1
    /\ out_file = NoFile
    /\ prev_file = NoFile
    /\ result = None
    /\ inp = None
    /\ prompt = "none"
    /\ flow = "none"
    /\ startdate = None
    /\ enddate = None
    /\ month = None
    /\ report = None
    /\ exit = FALSE

\* whether the program has run
Ran(task) == \E k \in 1..Len(written) : written[k].task = task

\* a program runs once: what it leaves on the console is kept, nothing else changes
Run(task, out) ==
    /\ ~Ran(task)
    /\ written' = Append(written, [task |-> task, out |-> out])
    /\ UNCHANGED <<pc, data_list, idx, days_list, current_day, daycount, out_file,
                   prev_file, in_file, call, result, inp, prompt, flow, startdate,
                   enddate, month, report, exit>>

TaskA_main == pc = "printers" /\ Run("TaskA", main_TaskA(in_file))

TaskB_main == pc = "printers" /\ Run("TaskB", main_TaskB(in_file))

PrinterNext == TaskA_main \/ TaskB_main

SpecPrint == PrinterInit /\ [][PrinterNext]_vars

-----------------------------------------------------------------------------
\* Claim C27

\* the paid field of the reservation the file holds
PaidField(file) == Field(split_R(strip_R(file.content)), 6)

\* the word a run printed after "Paid: "
PaidPrinted(out) ==
    out.lines[CHOOSE k \in 1..Len(out.lines) : out.lines[k].label = "Paid"].value

\* a run that printed the reservation
PrintedRuns == {k \in 1..Len(written) : written[k].out.raised = None}

\* C27: a single-reservation printer prints "Paid: Yes" exactly when the paid
\* field of the record is the text "True", and "Paid: No" when it is "False"
C27_PaidFollowsText ==
    pc = "printers" =>
        \A k \in PrintedRuns :
            /\ PaidPrinted(written[k].out) = "Yes" <=> PaidField(in_file) = <<Word("True")>>
            /\ PaidField(in_file) = <<Word("False")>> => PaidPrinted(written[k].out) = "No"

\* both printers have printed a reservation whose paid field is "False"
C27_Witness ==
    /\ pc = "printers"
    /\ PrintedRuns = {1, 2}
    /\ PaidField(in_file) = <<Word("False")>>

-----------------------------------------------------------------------------
\* TaskC, TaskG: the reports over the reservations of reservations.txt, the
\* reservations kept as lists (TaskC), as objects (TaskG class) and as
\* dictionaries (TaskG dict)

MaxReservations == 2

\* len(line): the number of characters of a line; a word stands for two
\* characters or more
Width(piece) ==
    IF piece.piece \in {"newline", " ", "|"} THEN 1
    ELSE IF piece.piece = "number"
         THEN (IF piece.whole < 10 THEN 1 ELSE 2) + (IF piece.mark = "none" THEN 0 ELSE 2)
    ELSE IF piece.piece = "date" THEN 10
    ELSE IF piece.piece = "time" THEN (IF piece.seconds THEN 8 ELSE 5)
    ELSE IF piece.piece = "created" THEN 19
    ELSE 2

RECURSIVE len(_)
len(line) == IF line = <<>> THEN 0 ELSE Width(Head(line)) + len(Tail(line))

\* datetime.strptime(s.strip(), "%Y-%m-%d %H:%M:%S")
strptime_created(text) ==
    LET t == strip_R(text)
    IN  IF /\ Len(t) = 1
           /\ t[1].piece = "created"
           /\ ValidDate(t[1].date)
           /\ t[1].hour \in 0..23
           /\ t[1].minute \in 0..59
        THEN [date |-> t[1].date, hour |-> t[1].hour, minute |-> t[1].minute]
        ELSE Raised("ValueError")

\* TaskC: True if reservation[8] == "True" else False
IsTrueText(text) == [bool |-> text = <<Word("True")>>]

\* TaskG: True if reservation[8].strip() == 'True' else False
IsTrueStripped(text) == [bool |-> strip_R(text) = <<Word("True")>>]

\* the conversions of the eleven fields in the order of the code, the
\* confirmed field by the test of the variant
Conversions(reservation, confirmed) ==
    <<Converted(reservation, 0, int_R(Field(reservation, 0))),
      Converted(reservation, 1, AsText(Field(reservation, 1))),
      Converted(reservation, 2, AsText(Field(reservation, 2))),
      Converted(reservation, 3, AsText(Field(reservation, 3))),
      Converted(reservation, 4, strptime_date(Field(reservation, 4))),
      Converted(reservation, 5, strptime_time(Field(reservation, 5))),
      Converted(reservation, 6, int_R(Field(reservation, 6))),
      Converted(reservation, 7, float_R(Field(reservation, 7))),
      Converted(reservation, 8, confirmed),
      Converted(reservation, 9, AsText(Field(reservation, 9))),
      Converted(reservation, 10, strptime_created(Field(reservation, 10)))>>

\* TaskC convert_reservation_data: the list of the eleven converted values
convert_reservation_data_TaskC(reservation) ==
    LET converted == Conversions(reservation, IsTrueText(Field(reservation, 8)))
    IN  IF FirstRaised(converted) # None THEN FirstRaised(converted)
        ELSE [converted |->
                 [k \in 1..11 |->
                     IF k \in {1, 7} THEN converted[k].int
                     ELSE IF k = 9 THEN converted[k].bool
                     ELSE converted[k]]]

\* TaskG class convert_reservation_data: a Reservation object
convert_reservation_data_class(reservation) ==
    LET c == Conversions(reservation, IsTrueStripped(Field(reservation, 8)))
    IN  IF FirstRaised(c) # None THEN FirstRaised(c)
        ELSE [reservation_id |-> c[1].int, name |-> c[2], email |-> c[3],
              phone |-> c[4], date |-> c[5], time |-> c[6], duration |-> c[7].int,
              price |-> c[8], confirmed |-> c[9].bool, resource |-> c[10],
              created |-> c[11]]

\* TaskG dict convert_reservation_data: a dictionary
convert_reservation_data_dict(reservation) ==
    LET c == Conversions(reservation, IsTrueStripped(Field(reservation, 8)))
    IN  IF FirstRaised(c) # None THEN FirstRaised(c)
        ELSE [id |-> c[1].int, name |-> c[2], email |-> c[3], phone |-> c[4],
              date |-> c[5], time |-> c[6], duration |-> c[7].int, price |-> c[8],
              confirmed |-> c[9].bool, resource |-> c[10], created |-> c[11]]

\* the Reservation methods
is_confirmed(self) == self.confirmed
is_long(self) == self.duration >= 3
total_price(self) == [num |-> self.duration * self.price.num, den |-> self.price.den]

\* the list of column names that TaskG's fetch_reservations puts first
Headers == <<"reservationId", "name", "email", "phone", "reservationDate",
             "reservationTime", "durationHours", "price", "confirmed",
             "reservedResource", "createdAt">>

\* what fetch_reservations hands back: the list, or the exception of the
\* first line whose conversion raises
Fetched(first, rows) ==
    IF FirstRaised(rows) # None THEN FirstRaised(rows)
    ELSE [reservations |-> first \o rows]

\* TaskC fetch_reservations: every line of the file is split and converted
fetch_reservations_TaskC(file) ==
    IF ~file.exists THEN Raised("FileNotFoundError")
    ELSE LET rows == [k \in 1..Len(file.content) |->
                         convert_reservation_data_TaskC(split_R(file.content[k]))]
         IN  IF FirstRaised(rows) # None THEN FirstRaised(rows)
             ELSE [reservations |-> [k \in 1..Len(rows) |-> rows[k].converted]]

\* the lines of more than one character
LongerLines(file) == SelectSeq(file.content, LAMBDA line : len(line) > 1)

\* TaskG class fetch_reservations: the column names come first, then every
\* line of more than one character is split and converted
fetch_reservations_class(file) ==
    IF ~file.exists THEN Raised("FileNotFoundError")
    ELSE Fetched(<<Headers>>, [k \in 1..Len(LongerLines(file)) |->
                     convert_reservation_data_class(split_R(LongerLines(file)[k]))])

\* TaskG dict fetch_reservations: the same with dictionaries
fetch_reservations_dict(file) ==
    IF ~file.exists THEN Raised("FileNotFoundError")
    ELSE Fetched(<<Headers>>, [k \in 1..Len(LongerLines(file)) |->
                     convert_reservation_data_dict(split_R(LongerLines(file)[k]))])

\* the printed lines: a heading, an empty line, and the lines of the five parts
Heading(text) == [heading |-> text]
EmptyLine == [heading |-> ""]
ConfirmedLine(name, resource, date, time) ==
    [format |-> "- {name}, {resource}, {date} at {time}",
     name |-> name, resource |-> resource, date |-> date, time |-> time]
LongLine(name, date, time, duration, resource) ==
    [format |-> "- {name}, {date} at {time}, duration {duration} h, {resource}",
     name |-> name, date |-> date, time |-> time, duration |-> duration,
     resource |-> resource]
StatusLine(name, confirmed) ==
    [format |-> "{name} -> {confirmed}", name |-> name,
     confirmed |-> IF confirmed THEN "Confirmed" ELSE "NOT Confirmed"]
SummaryLines(confirmed, not_confirmed) ==
    <<Line("- Confirmed reservations", confirmed),
      Line("- Not confirmed reservations", not_confirmed)>>
RevenueLine(revenue) == Line("Total revenue from confirmed reservations", revenue)

RECURSIVE sum(_)
\* sum(...) of prices, zero when there is none
sum(prices) ==
    IF prices = <<>> THEN [num |-> 0, den |-> 10]
    ELSE [num |-> Head(prices).num + sum(Tail(prices)).num, den |-> 10]

\* TaskC: the five parts over the lists
confirmed_reservations_TaskC(reservations) ==
    LET confirmed == SelectSeq(reservations, LAMBDA r : Field(r, 8))
    IN  [k \in 1..Len(confirmed) |->
            ConfirmedLine(Field(confirmed[k], 1), Field(confirmed[k], 9),
                          Field(confirmed[k], 4), Field(confirmed[k], 5))]

long_reservations_TaskC(reservations) ==
    LET long == SelectSeq(reservations, LAMBDA r : Field(r, 6) >= 3)
    IN  [k \in 1..Len(long) |->
            LongLine(Field(long[k], 1), Field(long[k], 4), Field(long[k], 5),
                     Field(long[k], 6), Field(long[k], 9))]

confirmation_statuses_TaskC(reservations) ==
    [k \in 1..Len(reservations) |->
        StatusLine(Field(reservations[k], 1), Field(reservations[k], 8))]

confirmation_summary_TaskC(reservations) ==
    LET confirmed_count == Len(SelectSeq(reservations, LAMBDA r : Field(r, 8)))
        not_confirmed_count == Len(SelectSeq(reservations, LAMBDA r : ~Field(r, 8)))
    IN  SummaryLines(confirmed_count, not_confirmed_count)

total_revenue_TaskC(reservations) ==
    LET confirmed == SelectSeq(reservations, LAMBDA r : Field(r, 8))
    IN  <<RevenueLine(sum([k \in 1..Len(confirmed) |-> Field(confirmed[k], 7)]))>>

\* TaskC main
main_TaskC(file) ==
    LET fetched == fetch_reservations_TaskC(file)
    IN  IF IsRaised(fetched) THEN Console(<<>>, fetched)
        ELSE LET reservations == fetched.reservations
             IN  Console(<<Heading("1) Confirmed Reservations")>>
                             \o confirmed_reservations_TaskC(reservations)
                             \o <<EmptyLine, Heading("2) Long Reservations (>= 3 h)")>>
                             \o long_reservations_TaskC(reservations)
                             \o <<EmptyLine, Heading("3) Reservation Confirmation Status")>>
                             \o confirmation_statuses_TaskC(reservations)
                             \o <<EmptyLine, Heading("4) Confirmation Summary")>>
                             \o confirmation_summary_TaskC(reservations)
                             \o <<EmptyLine,
                                  Heading("5) Total Revenue from Confirmed Reservations")>>
                             \o total_revenue_TaskC(reservations),
                         None)

\* TaskG class: the five parts over the objects, the column names skipped
confirmed_reservations_class(reservations) ==
    LET confirmed == SelectSeq(Tail(reservations), is_confirmed)
    IN  [k \in 1..Len(confirmed) |->
            ConfirmedLine(confirmed[k].name, confirmed[k].resource,
                          confirmed[k].date, confirmed[k].time)]

long_reservations_class(reservations) ==
    LET long == SelectSeq(Tail(reservations), is_long)
    IN  [k \in 1..Len(long) |->
            LongLine(long[k].name, long[k].date, long[k].time, long[k].duration,
                     long[k].resource)]

confirmation_statuses_class(reservations) ==
    [k \in 1..Len(Tail(reservations)) |->
        StatusLine(Tail(reservations)[k].name, is_confirmed(Tail(reservations)[k]))]

\* the second count is len(reservations) - confirmed, the list being the whole one
confirmation_summary_class(reservations) ==
    LET confirmed == Len(SelectSeq(Tail(reservations), is_confirmed))
    IN  SummaryLines(confirmed, Len(reservations) - confirmed)

total_revenue_class(reservations) ==
    LET confirmed == SelectSeq(Tail(reservations), is_confirmed)
    IN  <<RevenueLine(sum([k \in 1..Len(confirmed) |-> total_price(confirmed[k])]))>>

\* TaskG class main
main_class(file) ==
    LET fetched == fetch_reservations_class(file)
    IN  IF IsRaised(fetched) THEN Console(<<>>, fetched)
        ELSE LET reservations == fetched.reservations
             IN  Console(<<Heading("1) Confirmed Reservations")>>
                             \o confirmed_reservations_class(reservations)
                             \o <<Heading("2) Long Reservations (>= 3 h)")>>
                             \o long_reservations_class(reservations)
                             \o <<Heading("3) Reservation Confirmation Status")>>
                             \o confirmation_statuses_class(reservations)
                             \o <<Heading("4) Confirmation Summary")>>
                             \o confirmation_summary_class(reservations)
                             \o <<Heading("5) Total Revenue from Confirmed Reservations")>>
                             \o total_revenue_class(reservations),
                         None)

\* TaskG dict: the five parts over the dictionaries, the column names skipped
confirmed_reservations_dict(reservations) ==
    LET confirmed == SelectSeq(Tail(reservations), LAMBDA r : r["confirmed"])
    IN  [k \in 1..Len(confirmed) |->
            ConfirmedLine(confirmed[k]["name"], confirmed[k]["resource"],
                          confirmed[k]["date"], confirmed[k]["time"])]

\* a reservation of three hours is not long
long_dictMutant(reservation) == reservation["duration"] > 3

\* reservation["duration"] >= 3
long_dict(reservation) == reservation["duration"] >= 3

long_reservations_dict(reservations) ==
    LET long == SelectSeq(Tail(reservations), long_dict)
    IN  [k \in 1..Len(long) |->
            LongLine(long[k]["name"], long[k]["date"], long[k]["time"],
                     long[k]["duration"], long[k]["resource"])]

confirmation_statuses_dict(reservations) ==
    [k \in 1..Len(Tail(reservations)) |->
        StatusLine(Tail(reservations)[k]["name"], Tail(reservations)[k]["confirmed"])]

confirmation_summary_dict(reservations) ==
    LET confirmed == Len(SelectSeq(Tail(reservations), LAMBDA x : x["confirmed"]))
    IN  SummaryLines(confirmed, Len(reservations) - confirmed)

total_revenue_dict(reservations) ==
    LET confirmed == SelectSeq(Tail(reservations), LAMBDA x : x["confirmed"])
    IN  <<RevenueLine(sum([k \in 1..Len(confirmed) |->
                              [num |-> confirmed[k]["duration"] * confirmed[k]["price"].num,
                               den |-> confirmed[k]["price"].den]]))>>

\* TaskG dict main
main_dict(file) ==
    LET fetched == fetch_reservations_dict(file)
    IN  IF IsRaised(fetched) THEN Console(<<>>, fetched)
        ELSE LET reservations == fetched.reservations
             IN  Console(<<Heading("1) Confirmed Reservations")>>
                             \o confirmed_reservations_dict(reservations)
                             \o <<Heading("2) Long Reservations (>= 3 h)")>>
                             \o long_reservations_dict(reservations)
                             \o <<Heading("3) Reservation Confirmation Status")>>
                             \o confirmation_statuses_dict(reservations)
                             \o <<Heading("4) Confirmation Summary")>>
                             \o confirmation_summary_dict(reservations)
                             \o <<Heading("5) Total Revenue from Confirmed Reservations")>>
                             \o total_revenue_dict(reservations),
                         None)

\* a line of the reservations file of TaskC and TaskG: eleven fields
ReservationLine(id, name, time, duration, price, confirmed) ==
    JoinBars(<< <<NumberText(id, "none", 0)>>, <<Word(name)>>,
                <<Word("mail@example.com")>>, <<Word("0401234567")>>,
                <<DateText(Date(2025, 10, 31))>>, time,
                <<NumberText(duration, "none", 0)>>, price, confirmed,
                <<Word("Meeting Room A")>>,
                <<CreatedText(Date(2025, 10, 1), 9, 30)>> >>) \o <<NL>>

\* lines of reservations.txt: confirmed for three hours, not confirmed for two
\* hours, confirmed for four hours with blanks around the fields, confirmed
\* for one hour, then a time with seconds, a line of three fields, an empty line
ReservationLines ==
    {ReservationLine(1, "Muumi", <<TimeText(9, 0, FALSE)>>, 3,
                     <<NumberText(10, ".", 0)>>, <<Word("True")>>),
     ReservationLine(2, "Niiskuneiti", <<TimeText(10, 30, FALSE)>>, 2,
                     <<NumberText(12, ".", 5)>>, <<Word("False")>>),
     ReservationLine(3, "Nuuskamuikkunen", <<TimeText(12, 0, FALSE)>>, 4,
                     <<Space, NumberText(8, ".", 5), Space>>,
                     <<Space, Word("True"), Space>>),
     ReservationLine(4, "Hemuli", <<TimeText(14, 0, FALSE)>>, 1,
                     <<NumberText(20, ".", 0)>>, <<Word("True")>>),
     ReservationLine(5, "Haisuli", <<TimeText(9, 0, TRUE)>>, 3,
                     <<NumberText(10, ".", 0)>>, <<Word("True")>>),
     JoinBars(<< <<NumberText(6, "none", 0)>>, <<Word("Mymmeli")>>,
                 <<Word("mail@example.com")>> >>) \o <<NL>>,
     <<NL>>}

\* the file may be missing or hold up to MaxReservations lines
ReservationFiles ==
    {NoFile} \cup {File(body) : body \in SeqsUpTo(ReservationLines, MaxReservations)}

ReservationInit ==
    /\ pc = "reservations"
    /\ in_file \in ReservationFiles
    /\ call = [fn |-> "main"]
    /\ written = <<>>
    /\ data_list = <<>>
    /\ idx = 1
    /\ days_list = <<>>
    /\ current_day = None
    /\ daycount = -1
    /\ out_file = NoFile
    /\ prev_file = NoFile
    /\ result = None
    /\ inp = None
    /\ prompt = "none"
    /\ flow = "none"
    /\ startdate = None
    /\ enddate = None
    /\ month = None
    /\ report = None
    /\ exit = FALSE

TaskC_main == pc = "reservations" /\ Run("TaskC", main_TaskC(in_file))

TaskG_class_main == pc = "reservations" /\ Run("class", main_class(in_file))

TaskG_dict_main == pc = "reservations" /\ Run("dict", main_dict(in_file))

ReservationNext == TaskC_main \/ TaskG_class_main \/ TaskG_dict_main

SpecRes == ReservationInit /\ [][ReservationNext]_vars

-----------------------------------------------------------------------------
\* Claim C25

\* the reservation records of the file: its lines that are not empty
RecordsRead(file) == Len(SelectSeq(file.content, LAMBDA line : line # <<NL>>))

\* the count a run printed under the label
CountPrinted(out, label) ==
    out.lines[CHOOSE k \in 1..Len(out.lines) :
                 "label" \in DOMAIN out.lines[k] /\ out.lines[k].label = label].value

\* the two counts of the confirmation summary of a run add up to n
CountsAddUpTo(out, n) ==
    CountPrinted(out, "- Confirmed reservations")
        + CountPrinted(out, "- Not confirmed reservations") = n

\* C25: in the list-based, the class-based and the dict-based program alike,
\* the printed count of confirmed reservations plus the printed count of
\* not-confirmed reservations is the number of reservation records read from
\* the file
C25_CountsAddUp ==
    pc = "reservations" =>
        \A k \in PrintedRuns : CountsAddUpTo(written[k].out, RecordsRead(in_file))

-----------------------------------------------------------------------------
\* Claim C26

\* what the program left on the console
OutputOf(task) == written[CHOOSE k \in 1..Len(written) : written[k].task = task].out

\* C26: the class-based and the dict-based program print the same lines in
\* the same order for every reservations file (and end with the same
\* exception when the file cannot be read or converted)
C26_ClassAndDictPrintTheSame ==
    (pc = "reservations" /\ Ran("class") /\ Ran("dict")) =>
        OutputOf("class") = OutputOf("dict")

\* both programs have printed their report over a file of two reservations,
\* one confirmed for three hours and one not confirmed
C26_Witness ==
    /\ pc = "reservations"
    /\ Ran("class") /\ Ran("dict")
    /\ OutputOf("class").raised = None
    /\ OutputOf("dict").raised = None
    /\ Len(in_file.content) = 2
    /\ CountPrinted(OutputOf("dict"), "- Confirmed reservations") = 1
    /\ \E k \in 1..Len(OutputOf("dict").lines) :
          /\ "duration" \in DOMAIN OutputOf("dict").lines[k]
          /\ OutputOf("dict").lines[k].duration = 3

=============================================================================
